---- MODULE Spec2Model ----
(***************************************************************************)
(* Order admission and status workflow of the jersey ordering backend     *)
(* (src/server.js).  The source holds two variants of the server: the     *)
(* "first server" (lines 1-810: admin API, awaited e-mails, range 0-500,  *)
(* orders table without a uniqueness constraint) and the "second server"  *)
(* (lines 811-1633: pre-check plus UNIQUE constraint, fire-and-forget     *)
(* e-mails, range 1-99).  A behaviour of the model is one deployment of   *)
(* one variant against its own store.                                     *)
(*                                                                         *)
(* A request handler is cut at its awaits: one action is one store query  *)
(* (or one e-mail completion) together with the synchronous code that     *)
(* follows it up to the next await.                                       *)
(***************************************************************************)
EXTENDS Integers, Sequences, FiniteSets

VARIABLES env, orders, nextId, reqs, emails, admin_users

vars == <<env, orders, nextId, reqs, emails, admin_users>>

(* ------------------------------ bounds --------------------------------- *)

\* number of HTTP requests in one behaviour
MaxReqs == 2
\* number of requests that are being handled at the same time
MaxInFlight == 2
\* largest order id an admin request names
MaxTargetId == 2
\* number of submissions in a behaviour that explores the validator's inputs
MaxDrafts == 1

(* --------------------------- JavaScript values ------------------------- *)

Str(s) == [t |-> "str", s |-> s]
Num(n) == [t |-> "num", n |-> n]
Undefined == [t |-> "undef"]
Null == [t |-> "null"]

Digits == <<"0", "1", "2", "3", "4", "5", "6", "7", "8", "9">>

IsDigit(c) == \E i \in 1..10 : Digits[i] = c

DigitVal(c) == (CHOOSE i \in 1..10 : Digits[i] = c) - 1

IsSpace(c) == c = " "

\* Number.prototype.toString of a non-negative integer
RECURSIVE NatToString(_)
NatToString(n) ==
    IF n < 10 THEN <<Digits[n + 1]>>
    ELSE NatToString(n \div 10) \o <<Digits[(n % 10) + 1]>>

IntToString(n) == IF n < 0 THEN <<"-">> \o NatToString(-n) ELSE NatToString(n)

\* String(v), as parseInt and the pg driver apply it to a value
JsString(v) ==
    CASE v.t = "str" -> v.s
      [] v.t = "num" -> IntToString(v.n)
      [] OTHER -> <<"u", "n", "d", "e", "f", "i", "n", "e", "d">>

\* !v is false
Truthy(v) ==
    CASE v.t = "str" -> Len(v.s) > 0
      [] v.t = "num" -> v.n # 0
      [] OTHER -> FALSE

RECURSIVE TrimStart(_)
TrimStart(s) ==
    IF s # <<>> /\ IsSpace(s[1]) THEN TrimStart(Tail(s)) ELSE s

RECURSIVE TrimEnd(_)
TrimEnd(s) ==
    IF s # <<>> /\ IsSpace(s[Len(s)]) THEN TrimEnd(SubSeq(s, 1, Len(s) - 1)) ELSE s

\* String.prototype.trim
Trim(s) == TrimEnd(TrimStart(s))

RECURSIVE DigitsPrefix(_)
DigitsPrefix(s) ==
    IF s # <<>> /\ IsDigit(s[1]) THEN <<s[1]>> \o DigitsPrefix(Tail(s)) ELSE <<>>

RECURSIVE DigitsValue(_)
DigitsValue(ds) ==
    IF ds = <<>> THEN 0
    ELSE 10 * DigitsValue(SubSeq(ds, 1, Len(ds) - 1)) + DigitVal(ds[Len(ds)])

NaN == [nan |-> TRUE, n |-> 0]

\* parseInt(v): leading white space, an optional sign, then the longest run
\* of digits; what follows the digits is ignored; no digit gives NaN
ParseInt(v) ==
    LET s == TrimStart(JsString(v))
        signed == s # <<>> /\ s[1] \in {"-", "+"}
        body == IF signed THEN Tail(s) ELSE s
        ds == DigitsPrefix(body)
    IN  IF ds = <<>> THEN NaN
        ELSE [nan |-> FALSE,
              n |-> IF signed /\ s[1] = "-" THEN -DigitsValue(ds) ELSE DigitsValue(ds)]

UpperCase ==
    <<"A", "B", "C", "D", "E", "F", "G", "H", "I", "J", "K", "L", "M",
      "N", "O", "P", "Q", "R", "S", "T", "U", "V", "W", "X", "Y", "Z">>

LowerCase ==
    <<"a", "b", "c", "d", "e", "f", "g", "h", "i", "j", "k", "l", "m",
      "n", "o", "p", "q", "r", "s", "t", "u", "v", "w", "x", "y", "z">>

LowerChar(c) ==
    IF \E i \in 1..26 : UpperCase[i] = c
    THEN LowerCase[CHOOSE i \in 1..26 : UpperCase[i] = c]
    ELSE c

\* the comparison that keeps the letter case
MutLowerKeepsCase(s) == s

\* LOWER(s) of the store
Lower(s) == [i \in 1..Len(s) |-> LowerChar(s[i])]

\* /^[^\s@]+@[^\s@]+\.[^\s@]+$/.test(s)
Plain(s, a, b) == a <= b /\ \A k \in a..b : ~IsSpace(s[k]) /\ s[k] # "@"

EmailRegexTest(s) ==
    \E i \in 1..Len(s) : \E j \in 1..Len(s) :
        /\ s[i] = "@"
        /\ s[j] = "."
        /\ Plain(s, 1, i - 1)
        /\ Plain(s, i + 1, j - 1)
        /\ Plain(s, j + 1, Len(s))

(* ------------------------------ the store ------------------------------ *)

\* integer input of PostgreSQL, applied to a text parameter that is compared
\* with or stored into an INTEGER column: white space around an optionally
\* signed run of digits, anything else is error 22P02
PgInt4In(s) ==
    LET t == Trim(s)
        signed == t # <<>> /\ t[1] \in {"-", "+"}
        body == IF signed THEN Tail(t) ELSE t
    IN  IF body # <<>> /\ DigitsPrefix(body) = body
        THEN [ok |-> TRUE,
              n |-> IF signed /\ t[1] = "-" THEN -DigitsValue(body) ELSE DigitsValue(body)]
        ELSE [ok |-> FALSE, n |-> 0]

\* the orders table of the deployed server carries UNIQUE(jersey_number)
UniqueConstraint == env.server = 2

NoOrder ==
    [id |-> 0, name |-> <<>>, jersey_number |-> 0, status |-> "",
     batch |-> Null, transaction_id |-> Null, notes |-> Null,
     student_id |-> <<>>, email |-> <<>>, final_price |-> 0]

\* SELECT ... FROM orders WHERE jersey_number = n
SelectByJersey(n) == {o \in orders : o.jersey_number = n}

\* SELECT * FROM orders WHERE id = i
SelectById(i) == {o \in orders : o.id = i}

\* rows[0] of a result
FirstRow(rows) == IF rows = {} THEN NoOrder ELSE CHOOSE o \in rows : \A p \in rows : o.id <= p.id

\* INSERT INTO orders ... : the row the store adds, status by column default
\* or by parameter 'pending'; opt holds the other parameters
\* a status outside the two that the service knows
MutInitialStatusNew == "new"

\* the status of a new row: the parameter 'pending' of the first server's
\* INSERT, the column default of the second server's table
InitialStatus == "pending"

NewRow(name, jersey, opt) ==
    [id |-> nextId, name |-> name, jersey_number |-> jersey, status |-> InitialStatus,
     batch |-> opt.batch, transaction_id |-> opt.transactionId, notes |-> opt.notes,
     student_id |-> opt.studentId, email |-> opt.email, final_price |-> opt.finalPrice]

\* the UPDATE without its WHERE clause
MutUpdateStatusAll(i, s) == {[o EXCEPT !.status = s] : o \in orders}

\* the UPDATE that also clears the notes of the row
MutUpdateClearsNotes(i, s) ==
    {IF o.id = i THEN [o EXCEPT !.status = s, !.notes = Null] ELSE o : o \in orders}

\* UPDATE orders SET status = s WHERE id = i
UpdateStatus(i, s) == {IF o.id = i THEN [o EXCEPT !.status = s] ELSE o : o \in orders}

\* the INSERT of jersey number n is rejected by the constraint (error 23505)
UniqueViolation(n) == UniqueConstraint /\ SelectByJersey(n) # {}

\* the DELETE without its WHERE clause
MutDeleteAll(i) == {}

\* DELETE FROM orders WHERE id = i
DeleteById(i) == {o \in orders : o.id # i}

(* ------------------------------ requests ------------------------------- *)

Email == <<"a", "@", "b", ".", "c">>

BaseBody ==
    [name |-> Str(<<"A", "l">>), studentId |-> Str(<<"1">>), jerseyNumber |-> Num(7),
     batch |-> Undefined, size |-> Str(<<"M">>), collarType |-> Str(<<"V">>),
     sleeveType |-> Str(<<"S">>), email |-> Str(Email), transactionId |-> Undefined,
     notes |-> Undefined, finalPrice |-> Num(5)]

\* the submissions of the model: the same number as a number and as a string
\* under two spellings of a name, a string with a numeric prefix, a second
\* number, the number zero, a malformed address and a missing field
Bodies ==
    { BaseBody,
      [BaseBody EXCEPT !.name = Str(<<"a", "l">>), !.jerseyNumber = Str(<<"7">>)],
      [BaseBody EXCEPT !.name = Str(<<"B", "o">>), !.jerseyNumber = Str(<<"7", "a">>)],
      [BaseBody EXCEPT !.name = Str(<<"B", "o">>), !.jerseyNumber = Str(<<"8">>)],
      [BaseBody EXCEPT !.name = Str(<<"B", "o">>), !.jerseyNumber = Num(0)],
      [BaseBody EXCEPT !.email = Str(<<"a", "@", "b">>)],
      [BaseBody EXCEPT !.studentId = Undefined] }

\* submissions at and next to the bounds of both ranges, each as a number and
\* as a numeric string
BoundaryNumbers == {-1, 0, 1, 99, 100, 500, 501}

BoundaryDrafts ==
    {[BaseBody EXCEPT !.jerseyNumber = Num(n)] : n \in BoundaryNumbers}
    \cup {[BaseBody EXCEPT !.jerseyNumber = Str(IntToString(n))] : n \in BoundaryNumbers}

\* submissions with blank, missing and invalid required fields: one blank
\* field, two missing fields, two invalid fields
FieldDrafts ==
    { [BaseBody EXCEPT !.name = Str(<<" ">>)],
      [BaseBody EXCEPT !.size = Str(<<" ">>)],
      [BaseBody EXCEPT !.studentId = Undefined, !.size = Undefined],
      [BaseBody EXCEPT !.jerseyNumber = Num(501), !.email = Str(<<"a", "@", "b">>)] }

\* submissions with empty, blank, padded and non-textual optional fields
OptionalDrafts ==
    { [BaseBody EXCEPT !.batch = Str(<<>>), !.transactionId = Str(<<" ">>),
                       !.notes = Str(<<" ", "x", " ">>)],
      [BaseBody EXCEPT !.batch = Str(<<" ", "x">>), !.notes = Str(<<>>)],
      [BaseBody EXCEPT !.batch = Num(5)] }

Drafts == {BaseBody} \cup BoundaryDrafts \cup FieldDrafts \cup OptionalDrafts

\* the submissions that accompany availability queries
AvailBodies ==
    { BaseBody,
      [BaseBody EXCEPT !.name = Str(<<"B", "o">>), !.jerseyNumber = Str(<<"8">>)] }

\* the submissions that accompany name queries: a name, and the same name in
\* another letter case with another number
NameBodies ==
    { BaseBody,
      [BaseBody EXCEPT !.name = Str(<<"a", "l">>), !.jerseyNumber = Str(<<"8">>)] }

\* the values of the query parameter `name`: absent, a name in two letter
\* cases, the name with a leading space, another name
CheckNames == {<<>>, <<"A", "l">>, <<"a", "l">>, <<" ", "a", "l">>, <<"B", "o">>}

\* the queries of list requests: the default page, the second page of size
\* one without a status and with the wildcard, the first and the second page
\* of size one with a status, and a search
ListQuery(page, limit, status, search) ==
    [page |-> page, limit |-> limit, status |-> status, search |-> search]

ListQueries ==
    {ListQuery(Undefined, Undefined, "", <<>>),
     ListQuery(Str(<<"2">>), Str(<<"1">>), "", <<>>),
     ListQuery(Str(<<"2">>), Str(<<"1">>), "all", <<>>),
     ListQuery(Undefined, Str(<<"1">>), "done", <<>>),
     ListQuery(Str(<<"2">>), Str(<<"1">>), "done", <<>>),
     ListQuery(Undefined, Undefined, "", <<"b">>)}

\* the submission that accompanies list requests
ListBodies == {BaseBody}

\* the values of the query parameter `number`: absent, two numbers, no number
CheckNumbers == {<<>>, <<"7">>, <<"8">>, <<"x">>}

NoBody == [BaseBody EXCEPT !.name = Undefined, !.jerseyNumber = Undefined]

TargetIds == 1..MaxTargetId

\* A request: kind and inputs (body, id, status, number, name, list, token),
\* the handler's position pc, the row it read or inserted (order), the
\* response (code, error, reply: the other fields of the JSON body as pairs of
\* a name and a value, rows: the orders in the body, total and stats: the
\* counts in the body), the code of the error it caught (err) and the number
\* of store connections it has opened and not ended (open).  Four fields record what happened for
\* the properties and are read by no action: during (the requests that were
\* being handled when this one arrived), held (a stored order had the
\* submitted number when the handler first used the store), applied (the
\* UPDATE ran) and edge (the UPDATE changed a stored status to done).

\* the status values an admin request carries
RequestedStatuses == {"pending", "done", "shipped"}

RequiredFields ==
    <<"name", "studentId", "jerseyNumber", "size", "collarType", "sleeveType",
      "email", "finalPrice">>

\* the query of a list request: page and limit (absent or a string), status
\* and search (the empty string when absent)
NoList == [page |-> Undefined, limit |-> Undefined, status |-> "", search |-> <<>>]

NoStats == [totalOrders |-> 0, pending |-> 0, done |-> 0, totalRevenue |-> 0]

NewReq(kind) ==
    [kind |-> kind, pc |-> "done", body |-> NoBody, id |-> 0, status |-> "",
     number |-> <<>>, name |-> <<>>, list |-> NoList, token |-> "none",
     order |-> NoOrder, code |-> 0, error |-> <<>>, reply |-> {}, rows |-> <<>>,
     total |-> 0, stats |-> NoStats, orderId |-> <<>>, err |-> "", open |-> 0,
     during |-> {r \in 1..Len(reqs) : reqs[r].pc # "done"},
     held |-> FALSE, applied |-> FALSE, edge |-> FALSE]

\* res.status(code).json({error}) : the request is answered; a handler of the
\* first server leaves through `finally { await client.end() }`
Respond(q, code, error) ==
    [q EXCEPT !.pc = "done", !.code = code, !.error = error, !.open = 0]

InFlight == Cardinality({r \in 1..Len(reqs) : reqs[r].pc # "done"})

CanStart == Len(reqs) < MaxReqs /\ InFlight < MaxInFlight

(* ------------------------------- e-mail -------------------------------- *)

\* sendEmail (first server) and sendEmailViaBrevo (second server) return
\* at once, without a transport call, when BREVO_API_KEY is not set
SendState == IF env.BREVO_API_KEY THEN "outstanding" ELSE "unconfigured"

\* a call of sendEmail by request r: its state and the number of transport
\* calls (fetch) made for it
Mail(r, kind) ==
    [req |-> r, kind |-> kind, st |-> SendState,
     tries |-> IF env.BREVO_API_KEY THEN 1 ELSE 0]

\* the transport call ends: response.ok, a non-OK response, or fetch throws;
\* both functions catch the error and return {success: false}
Outcomes == {"ok", "not_ok", "threw"}

\* a failed transport call is made again
MutSettledRetries(e, outcome) ==
    IF outcome = "ok" THEN [e EXCEPT !.st = "sent"] ELSE [e EXCEPT !.tries = @ + 1]

Settled(e, outcome) == [e EXCEPT !.st = IF outcome = "ok" THEN "sent" ELSE "failed"]

\* sendEmail without its try/catch: a transport error rejects the promise
MutSendEmailRethrows(outcome) == [threw |-> outcome = "threw", success |-> outcome = "ok"]

\* what `await sendEmail(...)` gives the handler: the transport call sits in
\* try/catch, so the promise resolves to {success} and never rejects
SendEmail(outcome) == [threw |-> FALSE, success |-> outcome = "ok"]

\* the handler after an awaited sendEmail: its own catch answers 500 if the
\* await throws, otherwise it goes on to `next`
\* the handler that fails the request unless the e-mail was sent
MutAwaitedNeedsSuccess(q, outcome, next, error) ==
    IF outcome # "ok" THEN Respond(q, 500, error) ELSE next

\* await sendEmail(...): the handler goes on whatever sendEmail returns
Awaited(q, outcome, next, error) ==
    IF SendEmail(outcome).threw THEN Respond(q, 500, error) ELSE next

Outstanding(r, kind) == [req |-> r, kind |-> kind, st |-> "outstanding", tries |-> 1]

(* -------------------------------- Init --------------------------------- *)

\* const defaultAdmins of initDB
DefaultAdmins ==
    <<[username |-> "ice_dep", password |-> "ice_dep12"],
      [username |-> "aldrik", password |-> "aldrik123"],
      [username |-> "noor", password |-> "noorabdullah"]>>

\* bcrypt.hash(password, 12): the hash holds a salt, which is new in every
\* call; the salt of a call is the number of the run that makes it
BcryptHash(password, salt) == [of |-> password, salt |-> salt]

\* the row of admin_users that a run inserts for a default admin
AdminRow(i, salt) ==
    [username |-> DefaultAdmins[i].username,
     password_hash |-> BcryptHash(DefaultAdmins[i].password, salt)]

\* admin_users when the server listens: startServer awaited initDB, and some
\* start of the first server seeded the table; the second server has no
\* such table
SeededAdmins ==
    IF env.server = 1 THEN {AdminRow(i, 0) : i \in 1..Len(DefaultAdmins)} ELSE {}

\* an order that was admitted and set to done by an earlier run
DoneOrder ==
    [id |-> 2, name |-> <<"B", "o">>, jersey_number |-> 8, status |-> "done",
     batch |-> Str(<<"b", "1">>), transaction_id |-> Null, notes |-> Null,
     student_id |-> <<"2">>, email |-> Email, final_price |-> 3]

\* the store outlives the server (CREATE TABLE IF NOT EXISTS): a deployment
\* starts on an empty table or on one that holds an order admitted earlier
SeedOrder ==
    [id |-> 1, name |-> <<"A", "l">>, jersey_number |-> 7, status |-> "pending",
     batch |-> Null, transaction_id |-> Null, notes |-> Null,
     student_id |-> <<"1">>, email |-> Email, final_price |-> 5]

SeedStores == {{}, {SeedOrder}}

Init ==
    /\ env \in [server : {1, 2}, BREVO_API_KEY : BOOLEAN, ADMIN_EMAIL : BOOLEAN]
    /\ orders \in SeedStores
    /\ nextId = Cardinality(orders) + 1
    /\ reqs = <<>>
    /\ emails = {}
    /\ admin_users = SeededAdmins

(* ----------------------------- validation ------------------------------ *)

\* a message is a template: literal text and interpolated values
Lit(text) == [lit |-> text]
Val(chars) == [val |-> chars]

Ok == [code |-> 0, error |-> <<>>]

Fail(code, error) == [code |-> code, error |-> error]

\* first server: the configured inclusive range of jersey numbers
MinJersey1 == 0
MaxJersey1 == 500

\* second server: the configured inclusive range of jersey numbers
MinJersey2 == 1
MaxJersey2 == 99

\* first server: !name || !studentId || ... || !finalPrice
Missing1(b) == {RequiredFields[i] : i \in {k \in 1..Len(RequiredFields) : ~Truthy(b[RequiredFields[k]])}}

\* second server: requiredFields.filter(f => !body[f] || body[f].toString().trim() === '')
MissingFields(b) ==
    {RequiredFields[i] : i \in {k \in 1..Len(RequiredFields) :
        \/ ~Truthy(b[RequiredFields[k]])
        \/ Trim(JsString(b[RequiredFields[k]])) = <<>>}}

\* a validator that refuses a name a stored order has
MutValidate1Names(b) ==
    IF \E o \in orders : Lower(o.name) = Lower(Trim(JsString(b.name)))
    THEN Fail(409, <<Lit("Name already exists")>>)
    ELSE Ok

\* first server: the checks before the store is used
Validate1(b) ==
    LET jerseyNum == ParseInt(b.jerseyNumber)
    IN  IF Missing1(b) # {} THEN Fail(400, <<Lit("Missing required fields")>>)
        ELSE IF ~EmailRegexTest(JsString(b.email)) THEN Fail(400, <<Lit("Invalid email format")>>)
        ELSE IF jerseyNum.nan \/ jerseyNum.n < MinJersey1 \/ jerseyNum.n > MaxJersey1
             THEN Fail(400, <<Lit("Jersey number must be 0-500")>>)
        ELSE Ok

\* second server: the checks before the store is used
Validate2(b) ==
    LET jerseyNum == ParseInt(b.jerseyNumber)
    IN  IF MissingFields(b) # {} THEN Fail(400, <<Lit("Missing required fields")>>)
        ELSE IF jerseyNum.nan \/ jerseyNum.n < MinJersey2 \/ jerseyNum.n > MaxJersey2
             THEN Fail(400, <<Lit("Jersey number must be between 1 and 99")>>)
        ELSE IF ~EmailRegexTest(Trim(JsString(b.email)))
             THEN Fail(400, <<Lit("Please provide a valid email address")>>)
        ELSE Ok

(* ------------------- parameters of the optional columns ---------------- *)

OptionalFields == {"batch", "transactionId", "notes"}

\* the normalisation without the fallback to null
MutTrimOnly1(v) == IF v.t = "str" THEN Str(Trim(v.s)) ELSE Null

\* first server: v?.trim() || null
TrimOrNull1(v) == IF v.t = "str" /\ Trim(v.s) # <<>> THEN Str(Trim(v.s)) ELSE Null

\* first server: v?.trim() of a value that is neither nullish nor a string
\* throws a TypeError
OptThrows1(v) == v.t = "num"

\* second server: v && v.trim() ? v.trim() : null
Clean2(v) == IF v.t = "str" /\ Trim(v.s) # <<>> THEN Str(Trim(v.s)) ELSE Null

\* second server: v.trim() of a truthy value that is not a string throws
OptThrows2(v) == v.t = "num" /\ Truthy(v)

\* numeric input of PostgreSQL for the DECIMAL column final_price; the prices
\* of the model are whole numbers
PgNumericIn(v) == IF v.t = "num" THEN v.n ELSE PgInt4In(JsString(v)).n

InsertParams1(b) ==
    [batch |-> TrimOrNull1(b.batch), transactionId |-> TrimOrNull1(b.transactionId),
     notes |-> TrimOrNull1(b.notes), studentId |-> Trim(JsString(b.studentId)),
     email |-> Trim(JsString(b.email)), finalPrice |-> PgNumericIn(b.finalPrice)]

InsertParams2(b) ==
    [batch |-> Clean2(b.batch), transactionId |-> Clean2(b.transactionId),
     notes |-> Clean2(b.notes), studentId |-> Trim(JsString(b.studentId)),
     email |-> Trim(JsString(b.email)), finalPrice |-> PgNumericIn(b.finalPrice)]

ParamsThrow1(b) == \E f \in OptionalFields : OptThrows1(b[f])

ParamsThrow2(b) == \E f \in OptionalFields : OptThrows2(b[f])

\* the handler's catch answers 500 for an error thrown by its own code
Throws(q, error) == [Respond(q, 500, error) EXCEPT !.err = "TypeError"]

(* ----------------------- responses of a handler ------------------------ *)

\* the store fails the connection or the query: the handler's catch answers 500
StoreFails(q, error) == [Respond(q, 500, error) EXCEPT !.err = "ECONN"]

(* ------------------ POST /api/orders, first server --------------------- *)

\* if (process.env.ADMIN_EMAIL) await sendEmail(process.env.ADMIN_EMAIL, ...)
AdminMail1(r) == IF env.ADMIN_EMAIL THEN {Mail(r, "admin")} ELSE {}

\* res.status(201).json({success, orderId, status: 'pending'})
\* String.prototype.padStart(width, '0')
RECURSIVE PadStart(_, _)
PadStart(s, width) == IF Len(s) >= width THEN s ELSE PadStart(<<"0">> \o s, width)

OrderIdPrefix == <<"I", "C", "E", "-">>

\* padStart(3, '0') of the first server, padStart(6, '0') of the second
OrderIdWidth1 == 3
OrderIdWidth2 == 6

OrderIdWidth == IF env.server = 1 THEN OrderIdWidth1 ELSE OrderIdWidth2

\* the identifier without the padding
MutFormatUnpadded(id) == OrderIdPrefix \o IntToString(id)

\* `ICE-${order.id.toString().padStart(width, '0')}`; the second server's
\* `result[0]?.id || ...` takes the id, which RETURNING id gives and is not 0
FormatOrderId(id) == OrderIdPrefix \o PadStart(IntToString(id), OrderIdWidth)

\* res.status(201).json({success, message, orderId, ...})
Created(q) == [Respond(q, 201, <<>>) EXCEPT !.orderId = FormatOrderId(q.order.id)]

\* after the customer's e-mail: wait for the admin alert, or answer
AfterCustomerMail1(q) ==
    IF env.ADMIN_EMAIL /\ env.BREVO_API_KEY THEN [q EXCEPT !.pc = "mail_admin"]
    ELSE Created(q)

\* validation, connectDB and the INSERT; then the handler awaits sendEmail
Submit1(b) ==
    /\ env.server = 1
    /\ CanStart
    /\ LET r == Len(reqs) + 1
           q == [NewReq("submit") EXCEPT !.body = b,
                    !.held = SelectByJersey(ParseInt(b.jerseyNumber).n) # {}]
           v == Validate1(b)
           row == NewRow(Trim(JsString(b.name)), ParseInt(b.jerseyNumber).n,
                         InsertParams1(b))
       IN  \/ /\ v.code # 0
              /\ reqs' = Append(reqs, Respond(q, v.code, v.error))
              /\ UNCHANGED <<orders, nextId, emails>>
           \/ /\ v.code = 0
              /\ reqs' = Append(reqs, StoreFails(q, <<Lit("Order submission failed")>>))
              /\ UNCHANGED <<orders, nextId, emails>>
           \/ /\ v.code = 0
              /\ ParamsThrow1(b)
              /\ reqs' = Append(reqs, Throws(q, <<Lit("Order submission failed")>>))
              /\ UNCHANGED <<orders, nextId, emails>>
           \/ /\ v.code = 0
              /\ ~ParamsThrow1(b)
              /\ nextId' = nextId + 1
              /\ IF UniqueViolation(row.jersey_number)
                 THEN /\ reqs' = Append(reqs,
                            [Respond(q, 500, <<Lit("Order submission failed")>>) EXCEPT !.err = "23505"])
                      /\ UNCHANGED <<orders, emails>>
                 ELSE /\ orders' = orders \cup {row}
                      /\ IF env.BREVO_API_KEY
                         THEN /\ emails' = emails \cup {Mail(r, "confirmation")}
                              /\ reqs' = Append(reqs,
                                    [q EXCEPT !.pc = "mail_customer", !.order = row, !.open = 1])
                         ELSE /\ emails' = emails \cup {Mail(r, "confirmation")} \cup AdminMail1(r)
                              /\ reqs' = Append(reqs, Created([q EXCEPT !.order = row]))
    /\ UNCHANGED <<env, admin_users>>

\* the customer's e-mail settles; the handler goes on to the admin alert
Submit1MailCustomer(r, outcome) ==
    /\ reqs[r].kind = "submit"
    /\ reqs[r].pc = "mail_customer"
    /\ emails' = (emails \ {Outstanding(r, "confirmation")})
                    \cup {Settled(Outstanding(r, "confirmation"), outcome)}
                    \cup (IF SendEmail(outcome).threw THEN {} ELSE AdminMail1(r))
    /\ reqs' = [reqs EXCEPT ![r] =
            Awaited(reqs[r], outcome, AfterCustomerMail1(reqs[r]), <<Lit("Order submission failed")>>)]
    /\ UNCHANGED <<env, admin_users, orders, nextId>>

\* the admin alert settles; the handler answers 201
Submit1MailAdmin(r, outcome) ==
    /\ reqs[r].kind = "submit"
    /\ reqs[r].pc = "mail_admin"
    /\ emails' = (emails \ {Outstanding(r, "admin")})
                    \cup {Settled(Outstanding(r, "admin"), outcome)}
    /\ reqs' = [reqs EXCEPT ![r] =
            Awaited(reqs[r], outcome, Created(reqs[r]), <<Lit("Order submission failed")>>)]
    /\ UNCHANGED <<env, admin_users, orders, nextId>>

(* ------------------ POST /api/orders, second server -------------------- *)

\* the text of the error the handler caught
ErrorMessage == "error.message"

\* the catch of a handler of the second server: the answer carries
\* error.message under the given name
Caught2(q, code, name) ==
    [Respond(q, 500, <<Lit("Internal server error")>>) EXCEPT
        !.err = code, !.reply = {<<name, ErrorMessage>>}]

\* executeQuery throws: connectDatabase could not connect (no connection), its
\* test query SELECT NOW() failed (the client is connected and never ended),
\* or the query failed (executeQuery's finally ends the client)
ExecuteQueryFails(q, name) ==
    {[Caught2(q, "ECONN", name) EXCEPT !.open = o] : o \in {0, 1}}

\* error of the pre-check: `Jersey number ${jerseyNumber} is already taken by ${existing[0].name}`
TakenBy(jerseyNumber, holder) ==
    <<Lit("Jersey number "), Val(JsString(jerseyNumber)), Lit(" is already taken by "), Val(holder)>>

\* error of the catch for code 23505
Taken == <<Lit("Jersey number is already taken")>>

\* res.status(400).json({error: 'Missing required fields', missingFields})
MissingReply(b) == {<<"missingFields", f>> : f \in MissingFields(b)}

\* validation and the pre-check query, which is given the raw jerseyNumber; then
\* the parameters of the INSERT are prepared
Submit2(b) ==
    /\ env.server = 2
    /\ CanStart
    /\ LET q == [NewReq("submit") EXCEPT !.body = b,
                    !.held = SelectByJersey(ParseInt(b.jerseyNumber).n) # {}]
           v == Validate2(b)
           param == PgInt4In(JsString(b.jerseyNumber))
           existing == SelectByJersey(param.n)
       IN  \/ /\ v.code # 0
              /\ reqs' = Append(reqs,
                    [Respond(q, v.code, v.error) EXCEPT !.reply = MissingReply(b)])
           \/ /\ v.code = 0
              /\ \E f \in ExecuteQueryFails(q, "message") : reqs' = Append(reqs, f)
           \/ /\ v.code = 0
              /\ reqs' = Append(reqs,
                    IF ~param.ok
                    THEN Caught2(q, "22P02", "message")
                    ELSE IF existing # {}
                    THEN Respond(q, 409, TakenBy(b.jerseyNumber, FirstRow(existing).name))
                    ELSE IF ParamsThrow2(b)
                    THEN Caught2(q, "TypeError", "message")
                    ELSE [q EXCEPT !.pc = "insert"])
    /\ UNCHANGED <<env, admin_users, orders, nextId, emails>>

\* the INSERT, which is given the raw jerseyNumber; then both e-mails are
\* started without being awaited and the handler answers 201
Submit2Insert(r) ==
    /\ reqs[r].kind = "submit"
    /\ reqs[r].pc = "insert"
    /\ LET q == reqs[r]
           param == PgInt4In(JsString(q.body.jerseyNumber))
           row == NewRow(Trim(JsString(q.body.name)), param.n, InsertParams2(q.body))
       IN  \/ /\ \E f \in ExecuteQueryFails(q, "message") : reqs' = [reqs EXCEPT ![r] = f]
              /\ UNCHANGED <<orders, nextId, emails>>
           \/ /\ UniqueViolation(param.n)
              /\ reqs' = [reqs EXCEPT ![r] = [Respond(q, 409, Taken) EXCEPT !.err = "23505"]]
              /\ nextId' = nextId + 1
              /\ UNCHANGED <<orders, emails>>
           \/ /\ ~UniqueViolation(param.n)
              /\ orders' = orders \cup {row}
              /\ nextId' = nextId + 1
              /\ emails' = emails \cup {Mail(r, "confirmation"), Mail(r, "admin")}
              /\ reqs' = [reqs EXCEPT ![r] = Created([q EXCEPT !.order = row])]
    /\ UNCHANGED <<env, admin_users>>

\* an e-mail of the second server settles, after the response
EmailSettles2(e, outcome) ==
    /\ env.server = 2
    /\ e \in emails
    /\ e.st = "outstanding"
    /\ emails' = (emails \ {e}) \cup {Settled(e, outcome)}
    /\ UNCHANGED <<env, admin_users, orders, nextId, reqs>>

(* ------------------- authenticateToken (first server) ------------------ *)

\* the Authorization header of a request: none, a token with a wrong
\* signature, an expired token, a token that login issued and is in date
Tokens == {"none", "forged", "expired", "valid"}

ValidToken == "valid"

\* authHeader && authHeader.split(' ')[1]
BearerToken(token) == token # "none"

\* the verification that accepts every token
MutJwtVerifyAny(token) == TRUE

\* jwt.verify(token, secret) returns the payload; it throws for a wrong
\* signature and for an expired token
JwtVerify(token) == token = "valid"

\* the middleware calls next()
Authenticated(token) == BearerToken(token) /\ JwtVerify(token)

\* the middleware answers and the handler does not run
Denied(q) ==
    IF ~BearerToken(q.token) THEN Respond(q, 401, <<Lit("Access token required")>>)
    ELSE Respond(q, 403, <<Lit("Invalid token")>>)

(* ------------- PATCH /api/admin/orders/:id/status (first server) -------- *)

\* the handler without the check of the status
MutValidStatusAny(status) == TRUE

\* ['pending', 'done'].includes(status)
ValidStatus(status) == status \in {"pending", "done"}

\* the condition without the test of the previous status
MutNotifyAnyDone(previousStatus, newStatus) == newStatus = "done"

\* the condition without the test of the new status
MutNotifyNotDone(previousStatus, newStatus) == previousStatus # "done"

\* if (status === 'done' && order.status !== 'done')
NotifyStatusChanged(previousStatus, newStatus) ==
    newStatus = "done" /\ previousStatus # "done"

\* the status check and the SELECT of the current order
Patch(token, id, status) ==
    /\ env.server = 1
    /\ CanStart
    /\ LET q == [NewReq("patch") EXCEPT !.token = token, !.id = id, !.status = status]
           orderResult == SelectById(id)
       IN  \/ /\ ~Authenticated(token)
              /\ reqs' = Append(reqs, Denied(q))
           \/ /\ Authenticated(token)
              /\ ~ValidStatus(status)
              /\ reqs' = Append(reqs,
                    Respond(q, 400, <<Lit("Invalid status. Only pending/done allowed.")>>))
           \/ /\ Authenticated(token)
              /\ ValidStatus(status)
              /\ reqs' = Append(reqs, StoreFails(q, <<Lit("Failed to update status")>>))
           \/ /\ Authenticated(token)
              /\ ValidStatus(status)
              /\ reqs' = Append(reqs,
                    IF orderResult = {} THEN Respond(q, 404, <<Lit("Order not found")>>)
                    ELSE [q EXCEPT !.pc = "update", !.order = FirstRow(orderResult),
                                   !.open = 1])
    /\ UNCHANGED <<env, admin_users, orders, nextId, emails>>

\* res.json({success, message, newStatus: status})
Updated(q) ==
    [Respond(q, 200, <<>>) EXCEPT
        !.reply = {<<"success", "true">>,
                   <<"message", "Order status updated successfully">>,
                   <<"newStatus", q.status>>}]

\* the UPDATE, then the e-mail when the order read before was not done
PatchUpdate(r) ==
    /\ reqs[r].kind = "patch"
    /\ reqs[r].pc = "update"
    /\ LET q == reqs[r]
           stored == FirstRow(SelectById(q.id))
           applied == [q EXCEPT !.applied = TRUE,
                                !.edge = stored.id # 0 /\ stored.status # "done"
                                            /\ q.status = "done"]
       IN  \/ /\ reqs' = [reqs EXCEPT ![r] = StoreFails(q, <<Lit("Failed to update status")>>)]
              /\ UNCHANGED <<orders, emails>>
           \/ /\ orders' = UpdateStatus(q.id, q.status)
              /\ IF NotifyStatusChanged(q.order.status, q.status)
                 THEN /\ emails' = emails \cup {Mail(r, "status")}
                      /\ reqs' = [reqs EXCEPT ![r] =
                            IF env.BREVO_API_KEY THEN [applied EXCEPT !.pc = "mail_status"]
                            ELSE Updated(applied)]
                 ELSE /\ emails' = emails
                      /\ reqs' = [reqs EXCEPT ![r] = Updated(applied)]
    /\ UNCHANGED <<env, admin_users, nextId>>

\* the e-mail settles; the handler answers 200
PatchMail(r, outcome) ==
    /\ reqs[r].kind = "patch"
    /\ reqs[r].pc = "mail_status"
    /\ emails' = (emails \ {Outstanding(r, "status")})
                    \cup {Settled(Outstanding(r, "status"), outcome)}
    /\ reqs' = [reqs EXCEPT ![r] =
            Awaited(reqs[r], outcome, Updated(reqs[r]), <<Lit("Failed to update status")>>)]
    /\ UNCHANGED <<env, admin_users, orders, nextId>>

(* ------------- DELETE /api/admin/orders/:id (first server) -------------- *)

\* res.json({success, message}); the row that RETURNING * gave is not sent
Deleted(q, row) ==
    [Respond(q, 200, <<>>) EXCEPT
        !.order = row,
        !.reply = {<<"success", "true">>, <<"message", "Order deleted successfully">>}]

Delete(token, id) ==
    /\ env.server = 1
    /\ CanStart
    /\ LET q == [NewReq("delete") EXCEPT !.token = token, !.id = id]
           result == SelectById(id)
       IN  \/ /\ ~Authenticated(token)
              /\ reqs' = Append(reqs, Denied(q))
              /\ UNCHANGED orders
           \/ /\ Authenticated(token)
              /\ reqs' = Append(reqs, StoreFails(q, <<Lit("Failed to delete order")>>))
              /\ UNCHANGED orders
           \/ /\ Authenticated(token)
              /\ orders' = DeleteById(id)
              /\ reqs' = Append(reqs,
                    IF result = {} THEN Respond(q, 404, <<Lit("Order not found")>>)
                    ELSE Deleted(q, FirstRow(result)))
    /\ UNCHANGED <<env, admin_users, nextId, emails>>

(* --------------- GET /api/admin/orders/:id (first server) --------------- *)

\* res.json({success, order: result.rows[0]})
Fetched(q, row) ==
    [Respond(q, 200, <<>>) EXCEPT
        !.order = row, !.rows = <<row>>, !.reply = {<<"success", "true">>}]

GetById(token, id) ==
    /\ env.server = 1
    /\ CanStart
    /\ LET q == [NewReq("get") EXCEPT !.token = token, !.id = id]
           result == SelectById(id)
       IN  \/ /\ ~Authenticated(token)
              /\ reqs' = Append(reqs, Denied(q))
           \/ /\ Authenticated(token)
              /\ reqs' = Append(reqs, StoreFails(q, <<Lit("Failed to fetch order")>>))
           \/ /\ Authenticated(token)
              /\ reqs' = Append(reqs,
                    IF result = {} THEN Respond(q, 404, <<Lit("Order not found")>>)
                    ELSE Fetched(q, FirstRow(result)))
    /\ UNCHANGED <<env, admin_users, orders, nextId, emails>>

(* ---------------------- GET /api/orders/check-jersey -------------------- *)

\* the answer without the test of the result
MutAvailableAlways(rows) == TRUE

\* available: result.rows.length === 0
Available(rows) == rows = {}

\* res.json({available, message}); the message says the same in words
AvailableReply(q, rows) ==
    [Respond(q, 200, <<>>) EXCEPT
        !.reply = {<<"available", IF Available(rows) THEN "true" ELSE "false">>}]

\* first server: the column is VARCHAR, the parameter parseInt(number) is
\* compared as text and NaN equals no stored number
CheckJersey1(number) ==
    /\ env.server = 1
    /\ CanStart
    /\ LET q == [NewReq("check") EXCEPT !.number = number]
           n == ParseInt(Str(number))
           rows == IF n.nan THEN {} ELSE SelectByJersey(n.n)
       IN  \/ /\ number = <<>>
              /\ reqs' = Append(reqs, Respond(q, 400, <<Lit("Jersey number required")>>))
           \/ /\ number # <<>>
              /\ reqs' = Append(reqs, StoreFails(q, <<Lit("Check failed")>>))
           \/ /\ number # <<>>
              /\ reqs' = Append(reqs, AvailableReply(q, rows))
    /\ UNCHANGED <<env, admin_users, orders, nextId, emails>>

\* second server: the column is INTEGER and the parameter NaN is error 22P02
CheckJersey2(number) ==
    /\ env.server = 2
    /\ CanStart
    /\ LET q == [NewReq("check") EXCEPT !.number = number]
           n == ParseInt(Str(number))
       IN  \/ /\ number = <<>>
              /\ reqs' = Append(reqs, Respond(q, 400, <<Lit("Jersey number is required")>>))
           \/ /\ number # <<>>
              /\ \E f \in ExecuteQueryFails(q, "details") : reqs' = Append(reqs, f)
           \/ /\ number # <<>>
              /\ reqs' = Append(reqs,
                    IF n.nan
                    THEN Caught2(q, "22P02", "details")
                    ELSE AvailableReply(q, SelectByJersey(n.n)))
    /\ UNCHANGED <<env, admin_users, orders, nextId, emails>>

(* ----------------------- GET /api/orders/check-name --------------------- *)

\* SELECT id FROM orders WHERE LOWER(name) = LOWER($1), with name.trim()
SelectByName(name) == {o \in orders : Lower(o.name) = Lower(Trim(name))}

\* res.json({exists: rows.length > 0, message}); the second server adds
\* conflictingOrders: rows.length
ExistsReply(q, rows) ==
    [Respond(q, 200, <<>>) EXCEPT
        !.reply = {<<"exists", IF rows # {} THEN "true" ELSE "false">>},
        !.total = IF env.server = 2 THEN Cardinality(rows) ELSE 0]

CheckName1(name) ==
    /\ env.server = 1
    /\ CanStart
    /\ LET q == [NewReq("checkname") EXCEPT !.name = name]
       IN  \/ /\ name = <<>>
              /\ reqs' = Append(reqs, Respond(q, 400, <<Lit("Name required")>>))
           \/ /\ name # <<>>
              /\ reqs' = Append(reqs, StoreFails(q, <<Lit("Check failed")>>))
           \/ /\ name # <<>>
              /\ reqs' = Append(reqs, ExistsReply(q, SelectByName(name)))
    /\ UNCHANGED <<env, admin_users, orders, nextId, emails>>

CheckName2(name) ==
    /\ env.server = 2
    /\ CanStart
    /\ LET q == [NewReq("checkname") EXCEPT !.name = name]
       IN  \/ /\ name = <<>>
              /\ reqs' = Append(reqs, Respond(q, 400, <<Lit("Name is required")>>))
           \/ /\ name # <<>>
              /\ \E f \in ExecuteQueryFails(q, "details") : reqs' = Append(reqs, f)
           \/ /\ name # <<>>
              /\ reqs' = Append(reqs, ExistsReply(q, SelectByName(name)))
    /\ UNCHANGED <<env, admin_users, orders, nextId, emails>>

(* ----------------------- initDB (first server) -------------------------- *)

\* the run ends: initDB returns, or it throws and startServer exits
InitDBEnds(q, err) == [q EXCEPT !.pc = "done", !.err = err, !.open = 0]

\* the check that finds no account ever
MutAdminExistsNever(username) == {}

\* SELECT id FROM admin_users WHERE username = $1
AdminExists(username) == {a \in admin_users : a.username = username}

\* the loop goes on with the next default admin, or the run ends
NextAdmin(q) ==
    IF q.id < Len(DefaultAdmins) THEN [q EXCEPT !.pc = "select", !.id = q.id + 1]
    ELSE InitDBEnds(q, "")

\* a start of the server: connectDB and CREATE TABLE IF NOT EXISTS
InitDB ==
    /\ env.server = 1
    /\ CanStart
    /\ \/ reqs' = Append(reqs, InitDBEnds(NewReq("initDB"), "ECONN"))
       \/ reqs' = Append(reqs, [NewReq("initDB") EXCEPT !.pc = "select", !.id = 1, !.open = 1])
    /\ UNCHANGED <<env, admin_users, orders, nextId, emails>>

\* the SELECT for the default admin the loop is at
InitDBSelect(r) ==
    /\ reqs[r].kind = "initDB"
    /\ reqs[r].pc = "select"
    /\ \/ reqs' = [reqs EXCEPT ![r] = InitDBEnds(reqs[r], "ECONN")]
       \/ reqs' = [reqs EXCEPT ![r] =
              IF AdminExists(DefaultAdmins[reqs[r].id].username) = {}
              THEN [reqs[r] EXCEPT !.pc = "insert"]
              ELSE NextAdmin(reqs[r])]
    /\ UNCHANGED <<env, admin_users, orders, nextId, emails>>

\* bcrypt.hash and the INSERT; username is UNIQUE (error 23505)
InitDBInsert(r) ==
    /\ reqs[r].kind = "initDB"
    /\ reqs[r].pc = "insert"
    /\ LET username == DefaultAdmins[reqs[r].id].username
       IN  \/ /\ reqs' = [reqs EXCEPT ![r] = InitDBEnds(reqs[r], "ECONN")]
              /\ UNCHANGED admin_users
           \/ /\ \E a \in admin_users : a.username = username
              /\ reqs' = [reqs EXCEPT ![r] = InitDBEnds(reqs[r], "23505")]
              /\ UNCHANGED admin_users
           \/ /\ \A a \in admin_users : a.username # username
              /\ admin_users' = admin_users \cup {AdminRow(reqs[r].id, r)}
              /\ reqs' = [reqs EXCEPT ![r] = NextAdmin(reqs[r])]
    /\ UNCHANGED <<env, orders, nextId, emails>>

(* --------------------------- GET /api/health --------------------------- *)

\* the first server answers without the store
Health1 ==
    /\ env.server = 1
    /\ CanStart
    /\ reqs' = Append(reqs,
            [Respond(NewReq("health"), 200, <<>>) EXCEPT !.reply = {<<"status", "OK">>}])
    /\ UNCHANGED <<env, admin_users, orders, nextId, emails>>

\* healthCheck.databaseConnection = `Database Error: ${error.message}`
DatabaseError == "Database Error: " \o ErrorMessage

\* the second server: connectDatabase, SELECT NOW() and client.end() in one
\* try block without finally. When connectDatabase cannot connect there is
\* no connection; when its test query or the query of the handler fails the
\* client is connected and client.end() is not reached
Health2 ==
    /\ env.server = 2
    /\ CanStart
    /\ LET q == NewReq("health")
       IN  \/ reqs' = Append(reqs,
                  [Respond(q, 200, <<>>) EXCEPT
                      !.reply = {<<"status", "OK">>,
                                 <<"databaseConnection", "PostgreSQL Connected">>}])
           \/ \E o \in {0, 1} :
                  reqs' = Append(reqs,
                      [Respond(q, 200, <<>>) EXCEPT
                          !.err = "ECONN", !.open = o,
                          !.reply = {<<"status", "WARNING">>,
                                     <<"databaseConnection", DatabaseError>>}])
    /\ UNCHANGED <<env, admin_users, orders, nextId, emails>>

(* --------------- GET /api/admin/orders (first server) ------------------- *)

\* Number(v) of a string in arithmetic: the empty string is 0, an optionally
\* signed run of digits its value, anything else NaN
ToNumber(v) ==
    IF v.t = "num" THEN [nan |-> FALSE, n |-> v.n]
    ELSE IF Trim(JsString(v)) = <<>> THEN [nan |-> FALSE, n |-> 0]
    ELSE IF PgInt4In(JsString(v)).ok THEN [nan |-> FALSE, n |-> PgInt4In(JsString(v)).n]
    ELSE NaN

\* const { page = 1, limit = 50 } = req.query
DefaultPage == 1
DefaultLimit == 50

PageOf(list) == IF list.page = Undefined THEN Num(DefaultPage) ELSE list.page

LimitOf(list) == IF list.limit = Undefined THEN Num(DefaultLimit) ELSE list.limit

\* the offset that forgets that pages start at one
MutOffsetFromZero(list) == ToNumber(PageOf(list)).n * ToNumber(LimitOf(list)).n

\* const offset = (page - 1) * limit
Offset(list) == (ToNumber(PageOf(list)).n - 1) * ToNumber(LimitOf(list)).n

\* the store refuses LIMIT or OFFSET: not a number, or negative
LimitOffsetError(list) ==
    \/ ToNumber(PageOf(list)).nan
    \/ ~PgInt4In(JsString(LimitOf(list))).ok
    \/ PgInt4In(JsString(LimitOf(list))).n < 0
    \/ Offset(list) < 0

\* text ILIKE '%search%' for a search without pattern characters
ILike(text, search) ==
    \E i \in 1..(Len(text) - Len(search) + 1) :
        Lower(SubSeq(text, i, i + Len(search) - 1)) = Lower(search)

\* the WHERE clause: status = $1 if (status && status !== 'all'), and the
\* search over name, student_id, email and batch if (search)
Where(o, list) ==
    /\ (list.status # "" /\ list.status # "all") => o.status = list.status
    /\ list.search # <<>> =>
          \/ ILike(o.name, list.search)
          \/ ILike(o.student_id, list.search)
          \/ ILike(o.email, list.search)
          \/ (o.batch # Null /\ ILike(o.batch.s, list.search))

\* the order that puts the oldest first
RECURSIVE MutOldestFirst(_)
MutOldestFirst(rows) ==
    IF rows = {} THEN <<>>
    ELSE LET o == CHOOSE x \in rows : \A y \in rows : x.id <= y.id
         IN  <<o>> \o MutOldestFirst(rows \ {o})

\* ORDER BY created_at DESC: rows are created in the order of their ids
RECURSIVE OrderByCreatedDesc(_)
OrderByCreatedDesc(rows) ==
    IF rows = {} THEN <<>>
    ELSE LET o == CHOOSE x \in rows : \A y \in rows : x.id >= y.id
         IN  <<o>> \o OrderByCreatedDesc(rows \ {o})

Min(a, b) == IF a < b THEN a ELSE b

\* LIMIT $n OFFSET $m of a sequence
LimitOffset(seq, limit, offset) == SubSeq(seq, offset + 1, Min(offset + limit, Len(seq)))

\* SELECT * FROM orders [WHERE ...] ORDER BY created_at DESC LIMIT .. OFFSET ..
SelectPage(list) ==
    LimitOffset(OrderByCreatedDesc({o \in orders : Where(o, list)}),
                PgInt4In(JsString(LimitOf(list))).n, Offset(list))

\* the middleware, connectDB and the first query of Promise.all
List(token, list) ==
    /\ env.server = 1
    /\ CanStart
    /\ LET q == [NewReq("list") EXCEPT !.token = token, !.list = list]
       IN  \/ /\ ~Authenticated(token)
              /\ reqs' = Append(reqs, Denied(q))
           \/ /\ Authenticated(token)
              /\ reqs' = Append(reqs, StoreFails(q, <<Lit("Failed to fetch orders")>>))
           \/ /\ Authenticated(token)
              /\ reqs' = Append(reqs,
                    IF LimitOffsetError(list)
                    THEN [Respond(q, 500, <<Lit("Failed to fetch orders")>>) EXCEPT !.err = "22023"]
                    ELSE [q EXCEPT !.pc = "count", !.rows = SelectPage(list), !.open = 1])
    /\ UNCHANGED <<env, admin_users, orders, nextId, emails>>

\* res.json({success, orders, pagination: {page, totalPages, total}}); the
\* page count follows from total and limit
Listed(q, totalCount) ==
    [Respond(q, 200, <<>>) EXCEPT !.total = totalCount, !.reply = {<<"success", "true">>}]

\* SELECT COUNT(*) FROM orders [WHERE ...], the second query, and the answer
ListCount(r) ==
    /\ reqs[r].kind = "list"
    /\ reqs[r].pc = "count"
    /\ \/ reqs' = [reqs EXCEPT ![r] =
              [StoreFails(reqs[r], <<Lit("Failed to fetch orders")>>) EXCEPT !.rows = <<>>]]
       \/ reqs' = [reqs EXCEPT ![r] =
              Listed(reqs[r], Cardinality({o \in orders : Where(o, reqs[r].list)}))]
    /\ UNCHANGED <<env, admin_users, orders, nextId, emails>>

(* ---------------- GET /api/admin/stats (first server) ------------------- *)

StatsFailed(q) ==
    [StoreFails(q, <<Lit("Failed to fetch stats")>>) EXCEPT !.stats = NoStats]

\* SELECT COUNT(*) FROM orders WHERE status = $1
CountByStatus(status) == Cardinality({o \in orders : o.status = status})

\* the rows of a sum that forgets the status
MutRowsOfAnyStatus == orders

\* ... FROM orders WHERE status = 'done'
DoneRows == {o \in orders : o.status = "done"}

RECURSIVE SumPrices(_)
SumPrices(rows) ==
    IF rows = {} THEN 0
    ELSE LET o == CHOOSE x \in rows : TRUE
         IN  o.final_price + SumPrices(rows \ {o})

\* SELECT SUM(final_price): null over no rows
SumFinalPrice(rows) == IF rows = {} THEN Null ELSE Num(SumPrices(rows))

\* parseFloat(sum || 0)
ParseFloatOrZero(sum) == IF sum = Null THEN 0 ELSE sum.n

\* the middleware, connectDB and the first query of Promise.all
Stats(token) ==
    /\ env.server = 1
    /\ CanStart
    /\ LET q == [NewReq("stats") EXCEPT !.token = token]
       IN  \/ /\ ~Authenticated(token)
              /\ reqs' = Append(reqs, Denied(q))
           \/ /\ Authenticated(token)
              /\ reqs' = Append(reqs, StatsFailed(q))
           \/ /\ Authenticated(token)
              /\ reqs' = Append(reqs,
                    [q EXCEPT !.pc = "stats_pending", !.open = 1,
                              !.stats.totalOrders = Cardinality(orders)])
    /\ UNCHANGED <<env, admin_users, orders, nextId, emails>>

\* the second query
StatsPending(r) ==
    /\ reqs[r].pc = "stats_pending"
    /\ \/ reqs' = [reqs EXCEPT ![r] = StatsFailed(reqs[r])]
       \/ reqs' = [reqs EXCEPT ![r].pc = "stats_done",
                               ![r].stats.pending = CountByStatus("pending")]
    /\ UNCHANGED <<env, admin_users, orders, nextId, emails>>

\* the third query
StatsDone(r) ==
    /\ reqs[r].pc = "stats_done"
    /\ \/ reqs' = [reqs EXCEPT ![r] = StatsFailed(reqs[r])]
       \/ reqs' = [reqs EXCEPT ![r].pc = "stats_revenue",
                               ![r].stats.done = CountByStatus("done")]
    /\ UNCHANGED <<env, admin_users, orders, nextId, emails>>

\* the fourth query and res.json({success, stats})
StatsRevenue(r) ==
    /\ reqs[r].pc = "stats_revenue"
    /\ \/ reqs' = [reqs EXCEPT ![r] = StatsFailed(reqs[r])]
       \/ reqs' = [reqs EXCEPT ![r] =
              [Respond(reqs[r], 200, <<>>) EXCEPT
                  !.stats.totalRevenue = ParseFloatOrZero(SumFinalPrice(DoneRows)),
                  !.reply = {<<"success", "true">>}]]
    /\ UNCHANGED <<env, admin_users, orders, nextId, emails>>

(* ------------------------------ behaviours ----------------------------- *)

Requests == 1..Len(reqs)

\* a request arrives and its handler runs up to its first wait
Arrive ==
    \/ \E b \in Bodies : Submit1(b)
    \/ \E b \in Bodies : Submit2(b)
    \/ \E id \in TargetIds, status \in RequestedStatuses : Patch(ValidToken, id, status)
    \/ \E id \in TargetIds : Delete(ValidToken, id)
    \/ \E id \in TargetIds : GetById(ValidToken, id)

\* the handler of a submission goes on, or an e-mail of the second server
\* settles
ContinueSubmit ==
    \/ \E r \in Requests, outcome \in Outcomes : Submit1MailCustomer(r, outcome)
    \/ \E r \in Requests, outcome \in Outcomes : Submit1MailAdmin(r, outcome)
    \/ \E r \in Requests : Submit2Insert(r)
    \/ \E e \in emails, outcome \in Outcomes : EmailSettles2(e, outcome)

\* the handler of a status update goes on
ContinueAdmin ==
    \/ \E r \in Requests : PatchUpdate(r)
    \/ \E r \in Requests, outcome \in Outcomes : PatchMail(r, outcome)

\* a handler that waits goes on
Continue == ContinueSubmit \/ ContinueAdmin

Next == Arrive \/ Continue

Spec == Init /\ [][Next]_vars

\* requests served one after the other: a request arrives only when every
\* earlier request has been answered
NextSeq == (InFlight = 0 /\ Arrive) \/ Continue

SpecSeq == Init /\ [][NextSeq]_vars

\* the validator's inputs: submissions drawn from Drafts, MaxDrafts of them
ArriveDraft ==
    \/ \E b \in Drafts : Len(reqs) < MaxDrafts /\ Submit1(b)
    \/ \E b \in Drafts : Len(reqs) < MaxDrafts /\ Submit2(b)

NextDrafts == ArriveDraft \/ ContinueSubmit

SpecDrafts == Init /\ [][NextDrafts]_vars

\* availability queries next to submissions and deletes
ArriveAvail ==
    \/ \E b \in AvailBodies : Submit1(b)
    \/ \E b \in AvailBodies : Submit2(b)
    \/ \E id \in TargetIds : Delete(ValidToken, id)
    \/ \E number \in CheckNumbers : CheckJersey1(number)
    \/ \E number \in CheckNumbers : CheckJersey2(number)

NextAvail == ArriveAvail \/ ContinueSubmit

SpecAvail == Init /\ [][NextAvail]_vars

\* name queries next to submissions
ArriveNames ==
    \/ \E b \in NameBodies : Submit1(b)
    \/ \E b \in NameBodies : Submit2(b)
    \/ \E name \in CheckNames : CheckName1(name)
    \/ \E name \in CheckNames : CheckName2(name)

NextNames == ArriveNames \/ ContinueSubmit

SpecNames == Init /\ [][NextNames]_vars

\* a deployment of the first server on a store that holds no order, a
\* pending order, or a pending and a done order
StoresWithDone == {{}, {SeedOrder}, {SeedOrder, DoneOrder}}

InitAdmin ==
    /\ env \in [server : {1}, BREVO_API_KEY : BOOLEAN, ADMIN_EMAIL : BOOLEAN]
    /\ orders \in StoresWithDone
    /\ nextId = Cardinality(orders) + 1
    /\ reqs = <<>>
    /\ emails = {}
    /\ admin_users = SeededAdmins

\* list requests next to submissions
NextList ==
    \/ \E b \in ListBodies : Submit1(b)
    \/ \E list \in ListQueries : List(ValidToken, list)
    \/ \E r \in Requests, outcome \in Outcomes : Submit1MailCustomer(r, outcome)
    \/ \E r \in Requests, outcome \in Outcomes : Submit1MailAdmin(r, outcome)
    \/ \E r \in Requests : ListCount(r)

SpecList == InitAdmin /\ [][NextList]_vars

\* the id of the seeded pending order, the target of the admin requests of
\* the runs about stats and about tokens
SeedIds == {SeedOrder.id}

\* stats requests next to submissions and status updates
NextStats ==
    \/ \E b \in ListBodies : Submit1(b)
    \/ \E id \in SeedIds : Patch(ValidToken, id, "done")
    \/ Stats(ValidToken)
    \/ \E r \in Requests, outcome \in Outcomes : Submit1MailCustomer(r, outcome)
    \/ \E r \in Requests, outcome \in Outcomes : Submit1MailAdmin(r, outcome)
    \/ \E r \in Requests : PatchUpdate(r)
    \/ \E r \in Requests, outcome \in Outcomes : PatchMail(r, outcome)
    \/ \E r \in Requests : StatsPending(r)
    \/ \E r \in Requests : StatsDone(r)
    \/ \E r \in Requests : StatsRevenue(r)

SpecStats == InitAdmin /\ [][NextStats]_vars

\* the inputs of the runs with every operation
FrameStatuses == {"pending", "done"}
FrameNumbers == {<<"7">>}
FrameNames == {<<"A", "l">>}
FrameQueries == {NoList}
FrameBodies == {[BaseBody EXCEPT !.notes = Str(<<"x">>)]}

\* every operation of the two servers
ArriveFrame ==
    \/ \E b \in FrameBodies : Submit1(b)
    \/ \E b \in FrameBodies : Submit2(b)
    \/ \E id \in TargetIds, status \in FrameStatuses : Patch(ValidToken, id, status)
    \/ \E id \in TargetIds : Delete(ValidToken, id)
    \/ \E id \in TargetIds : GetById(ValidToken, id)
    \/ \E list \in FrameQueries : List(ValidToken, list)
    \/ Stats(ValidToken)
    \/ \E number \in FrameNumbers : CheckJersey1(number)
    \/ \E number \in FrameNumbers : CheckJersey2(number)
    \/ \E name \in FrameNames : CheckName1(name)
    \/ \E name \in FrameNames : CheckName2(name)

\* the handler of a list or stats request goes on
ContinueRead ==
    \/ \E r \in Requests : ListCount(r)
    \/ \E r \in Requests : StatsPending(r)
    \/ \E r \in Requests : StatsDone(r)
    \/ \E r \in Requests : StatsRevenue(r)

NextFrame == ArriveFrame \/ Continue \/ ContinueRead

SpecFrame == Init /\ [][NextFrame]_vars

\* the public routes that use the store, and the health route
ArrivePublic ==
    \/ \E b \in FrameBodies : Submit1(b)
    \/ \E b \in FrameBodies : Submit2(b)
    \/ \E number \in FrameNumbers : CheckJersey1(number)
    \/ \E number \in FrameNumbers : CheckJersey2(number)
    \/ \E name \in FrameNames : CheckName1(name)
    \/ \E name \in FrameNames : CheckName2(name)
    \/ Health1
    \/ Health2

NextPublic == ArrivePublic \/ ContinueSubmit

SpecPublic == Init /\ [][NextPublic]_vars

\* the admin routes under every kind of token
ArriveAdmin ==
    \/ \E token \in Tokens, id \in SeedIds : Patch(token, id, "done")
    \/ \E token \in Tokens, id \in SeedIds : Delete(token, id)
    \/ \E token \in Tokens, id \in SeedIds : GetById(token, id)
    \/ \E token \in Tokens, list \in FrameQueries : List(token, list)
    \/ \E token \in Tokens : Stats(token)

NextTokens == ArriveAdmin \/ ContinueAdmin \/ ContinueRead

SpecTokens == InitAdmin /\ [][NextTokens]_vars

\* a second order with the number of the seeded order, which the first
\* server admits (no pre-check, no UNIQUE constraint)
TwinOrder ==
    [id |-> 2, name |-> <<"B", "o">>, jersey_number |-> SeedOrder.jersey_number,
     status |-> "pending", batch |-> Null, transaction_id |-> Null, notes |-> Null,
     student_id |-> <<"2">>, email |-> Email, final_price |-> 5]

\* a deployment of the first server after earlier runs admitted one order or
\* two orders with the same number
InitTwins ==
    /\ env \in [server : {1}, BREVO_API_KEY : BOOLEAN, ADMIN_EMAIL : BOOLEAN]
    /\ orders \in {{SeedOrder}, {SeedOrder, TwinOrder}}
    /\ nextId = Cardinality(orders) + 1
    /\ reqs = <<>>
    /\ emails = {}
    /\ admin_users = SeededAdmins

\* deletes, availability queries and submissions of the first server
NextTwins ==
    \/ \E b \in AvailBodies : Submit1(b)
    \/ \E id \in TargetIds : Delete(ValidToken, id)
    \/ \E number \in CheckNumbers : CheckJersey1(number)
    \/ \E r \in Requests, outcome \in Outcomes : Submit1MailCustomer(r, outcome)
    \/ \E r \in Requests, outcome \in Outcomes : Submit1MailAdmin(r, outcome)

SpecTwins == InitTwins /\ [][NextTwins]_vars

\* the store answers or fails the query that request r waits for
StoreAnswers(r) == r \in Requests /\ (PatchUpdate(r) \/ Submit2Insert(r))

\* the transport call of an e-mail that request r awaits ends
TransportAnswers(r) ==
    /\ r \in Requests
    /\ \E outcome \in Outcomes :
          Submit1MailCustomer(r, outcome) \/ Submit1MailAdmin(r, outcome) \/ PatchMail(r, outcome)

\* the server with a store that answers or fails every query; node-fetch is
\* called without a timeout, so nothing makes a transport call end
SpecStoreAnswers == Spec /\ \A r \in 1..MaxReqs : WF_vars(StoreAnswers(r))

\* the server with a store and an e-mail transport that answer or fail
SpecAllAnswer ==
    SpecStoreAnswers /\ \A r \in 1..MaxReqs : WF_vars(TransportAnswers(r))

\* admin_users before a start: empty, left with one account by a start that
\* the store failed, or seeded
AdminTables ==
    {{}, {AdminRow(1, 0)}, {AdminRow(i, 0) : i \in 1..Len(DefaultAdmins)}}

InitSeeding ==
    /\ env \in [server : {1}, BREVO_API_KEY : BOOLEAN, ADMIN_EMAIL : BOOLEAN]
    /\ orders = {}
    /\ nextId = 1
    /\ reqs = <<>>
    /\ emails = {}
    /\ admin_users \in AdminTables

\* starts of the first server, one after the other or at the same time
NextSeeding ==
    \/ InitDB
    \/ \E r \in Requests : InitDBSelect(r)
    \/ \E r \in Requests : InitDBInsert(r)

SpecSeeding == InitSeeding /\ [][NextSeeding]_vars

(* ------------------------------ properties ----------------------------- *)

Done(r) == reqs[r].pc = "done"

Submits == {r \in Requests : reqs[r].kind = "submit"}

Patches == {r \in Requests : reqs[r].kind = "patch"}

\* the jersey number of a submission, as the validator reads it
JerseyOf(r) == ParseInt(reqs[r].body.jerseyNumber).n

\* the submission passed the validator of the deployed server
Validated(r) ==
    IF env.server = 1 THEN Validate1(reqs[r].body).code = 0
    ELSE Validate2(reqs[r].body).code = 0

\* the submission added a row to the store
Inserted(r) == reqs[r].order.id # 0

\* the handler reached the INSERT and the store answered it
ReachedInsert(r) == Inserted(r) \/ reqs[r].err = "23505"

\* the message names the value
Contains(error, chars) == \E i \in 1..Len(error) : error[i] = Val(chars)

\* C1: no two stored orders have the same jersey number, in every reachable
\* state of the store.
C1_JerseyUnique ==
    \A o \in orders : \A p \in orders : o.jersey_number = p.jersey_number => o.id = p.id

\* C2: of two submissions with the same previously unused number that run
\* concurrently and both get past the pre-check to the INSERT, exactly one
\* is persisted and the other is answered 409, never 500.
C2_RaceGivesConflict ==
    \A r1 \in Submits : \A r2 \in Submits :
        ( /\ r1 \in reqs[r2].during
          /\ ~reqs[r1].held
          /\ JerseyOf(r1) = JerseyOf(r2)
          /\ Done(r1) /\ Done(r2)
          /\ ReachedInsert(r1) /\ ReachedInsert(r2) )
        => \/ Inserted(r1) /\ ~Inserted(r2) /\ reqs[r2].code = 409
           \/ Inserted(r2) /\ ~Inserted(r1) /\ reqs[r1].code = 409

\* C3: a submission whose jersey number is held by a stored order is answered
\* 409 and persists no record.
C3_HeldNumberConflicts ==
    \A r \in Submits :
        (Done(r) /\ Validated(r) /\ reqs[r].held /\ reqs[r].err # "ECONN")
        => (reqs[r].code = 409 /\ ~Inserted(r))

\* C4: every 409 answer to a submission names the conflicting jersey number,
\* after the pre-check and after a constraint rejection alike.
C4_ConflictNamesNumber ==
    \A r \in Submits :
        reqs[r].code = 409 =>
            \/ Contains(reqs[r].error, JsString(reqs[r].body.jerseyNumber))
            \/ Contains(reqs[r].error, IntToString(JerseyOf(r)))

StatusMails(r) == {e \in emails : e.req = r /\ e.kind = "status"}

StoredStatus(id) == FirstRow(SelectById(id)).status

\* r is a status request for done
AsksDone(r) == r \in Patches /\ reqs[r].status = "done"

\* C6: two status updates to done, one after the other, on a pending order:
\* the first hands one e-mail to sendEmail, the second is answered 200 and
\* hands over none, and the stored status is done after each.
C6_SecondDoneIsSilent ==
    \A r \in Requests :
        (AsksDone(r) /\ reqs[r].code = 200 /\ reqs[r].order.status = "pending") =>
            /\ Cardinality(StatusMails(r)) = 1
            /\ (r = Len(reqs) => StoredStatus(reqs[r].id) = "done")
            /\ ( ( /\ r + 1 \in Requests
                   /\ AsksDone(r + 1)
                   /\ reqs[r + 1].id = reqs[r].id
                   /\ Done(r + 1)
                   /\ reqs[r + 1].err # "ECONN" )
                 => /\ reqs[r + 1].code = 200
                    /\ StatusMails(r + 1) = {}
                    /\ (r + 1 = Len(reqs) => StoredStatus(reqs[r].id) = "done") )

\* both calls were made and answered 200
C6_Witness ==
    \E r \in Requests :
        /\ AsksDone(r) /\ reqs[r].code = 200 /\ reqs[r].order.status = "pending"
        /\ r + 1 \in Requests /\ AsksDone(r + 1) /\ reqs[r + 1].id = reqs[r].id
        /\ reqs[r + 1].code = 200

\* C7: a status update hands an e-mail to sendEmail if and only if the status
\* it read before its UPDATE was not done and the requested status is done;
\* never for done to done, for a request for pending, or with 400, 404, 500.
C7_MailIffEdge ==
    \A r \in Requests :
        /\ StatusMails(r) # {} =>
              /\ AsksDone(r)
              /\ reqs[r].order.id # 0 /\ reqs[r].order.status # "done"
              /\ reqs[r].code \notin {400, 404, 500}
        /\ ( /\ AsksDone(r) /\ reqs[r].code = 200
             /\ reqs[r].order.status # "done" ) => StatusMails(r) # {}

\* an update to done of a pending order was mailed and answered, and an
\* update that found the order done was answered without an e-mail
C7_Witness ==
    /\ \E r \in Requests : AsksDone(r) /\ reqs[r].code = 200 /\ StatusMails(r) # {}
    /\ \E r \in Requests :
          /\ AsksDone(r) /\ reqs[r].code = 200
          /\ reqs[r].order.status = "done" /\ StatusMails(r) = {}

\* C8: for every stored order the number of status e-mails equals the number of
\* times its stored status went from a value other than done to done.
C8_MailsEqualEdges ==
    \A o \in orders :
        Cardinality({e \in emails : e.kind = "status" /\ reqs[e.req].id = o.id})
            = Cardinality({r \in Patches : reqs[r].id = o.id /\ reqs[r].edge})

\* a field is present and, where textual, not empty after trimming
Present(v) == v.t # "undef" /\ (v.t = "str" => Trim(v.s) # <<>>)

\* the value is an integer: a number, or a string that is an optionally
\* signed run of digits
IsInteger(v) ==
    \/ v.t = "num"
    \/ /\ v.t = "str"
       /\ LET t == Trim(v.s)
              body == IF t # <<>> /\ t[1] \in {"-", "+"} THEN Tail(t) ELSE t
          IN  body # <<>> /\ DigitsPrefix(body) = body

\* a submission that meets the field constraints of the validator's contract
\* with the range the deployed server documents
ValidDraft(b) ==
    /\ \A i \in 1..Len(RequiredFields) : Present(b[RequiredFields[i]])
    /\ EmailRegexTest(Trim(JsString(b.email)))
    /\ IsInteger(b.jerseyNumber)
    /\ LET n == ParseInt(b.jerseyNumber).n
       IN  IF env.server = 1 THEN MinJersey1 <= n /\ n <= MaxJersey1
           ELSE MinJersey2 <= n /\ n <= MaxJersey2

\* C9: a valid submission whose number no stored order holds (and no other
\* submission asks for) is answered 201 and persisted, and getById of the
\* record gives status pending as long as no status update names it.
C9_ValidUnusedIsAdmitted ==
    \A r \in Submits :
        ( /\ Done(r)
          /\ ValidDraft(reqs[r].body)
          /\ ~reqs[r].held
          /\ reqs[r].err # "ECONN"
          /\ \A r2 \in Submits \ {r} : JerseyOf(r2) # JerseyOf(r) )
        => /\ reqs[r].code = 201
           /\ Inserted(r)
           /\ \A g \in Requests :
                 ( /\ reqs[g].kind = "get" /\ reqs[g].code = 200
                   /\ reqs[g].id = reqs[r].order.id
                   /\ \A u \in Patches : reqs[u].id # reqs[g].id )
                 => reqs[g].order.status = "pending"

\* a transport call of an e-mail ends in this step
MailSettles == \E e \in emails : e.st = "outstanding" /\ e \notin emails'

\* C10: an e-mail that fails (transport error, non-OK answer, missing
\* configuration) fails no operation: a persisted submission is answered 201,
\* an applied status update 200, and the step in which an e-mail settles
\* leaves the store as it is.
C10_MailNeverFailsRequest ==
    /\ [](\A r \in Requests :
            /\ (r \in Submits /\ Inserted(r) /\ Done(r)) => reqs[r].code = 201
            /\ (r \in Patches /\ reqs[r].applied /\ Done(r)) => reqs[r].code = 200)
    /\ [][MailSettles => orders' = orders]_vars

\* a submission and a status update were answered 201 and 200 after the
\* transport call of their e-mail had failed
C10_Witness ==
    /\ \E e \in emails :
          /\ e.st = "failed" /\ e.kind = "status"
          /\ reqs[e.req].code = 200 /\ reqs[e.req].applied
    /\ \E e \in emails :
          /\ e.st = "failed" /\ e.kind = "confirmation"
          /\ reqs[e.req].code = 201 /\ Inserted(e.req)

\* C11: the response of a submission and of a status update does not wait for
\* the e-mail: no handler is held at an awaited sendEmail, so a request whose
\* e-mail is still outstanding has been answered.
C11_ResponseDoesNotWait ==
    \A e \in emails : e.st = "outstanding" => Done(e.req)

\* C12: no e-mail is retried: a request hands at most one e-mail per recipient
\* to sendEmail, at most one transport call is made for it, and an e-mail
\* that has settled, as sent or as failed, stays as it is.
C12_NoRetry ==
    /\ [](\A e \in emails :
            /\ e.tries <= 1
            /\ \A f \in emails : (f.req = e.req /\ f.kind = e.kind) => f = e)
    /\ [][\A e \in emails : e.st # "outstanding" => e \in emails']_vars

\* the transport call of a confirmation and of a status e-mail failed and the
\* request of each was answered
C12_Witness ==
    /\ \E e \in emails : e.st = "failed" /\ e.kind = "confirmation" /\ Done(e.req)
    /\ \E e \in emails : e.st = "failed" /\ e.kind = "status" /\ Done(e.req)

\* C13: an admin e-mail is handed over only by a submission that created an
\* order, never by a status update or a delete, and only if ADMIN_EMAIL is
\* set; without it the submission is still answered 201.
C13_AdminMailOnlyIfConfigured ==
    /\ \A e \in emails :
          e.kind = "admin" =>
              /\ e.req \in Submits /\ Inserted(e.req)
              /\ env.ADMIN_EMAIL
    /\ \A r \in Submits :
          (~env.ADMIN_EMAIL /\ Inserted(r) /\ Done(r)) => reqs[r].code = 201

\* a request arrives in this step
Arrives == Len(reqs') = Len(reqs) + 1

\* the request that arrives in this step, after the first step of its handler
Arrived == reqs'[Len(reqs')]

Deletes == {r \in Requests : reqs[r].kind = "delete"}

Gets == {r \in Requests : reqs[r].kind = "get"}

\* C14: DELETE of an id that no stored order has is answered 404 and leaves
\* the store as it is; DELETE of a stored id is answered 200 and removes that
\* order and no other; the id is in the store never again, and every later
\* getById of it is answered 404.
C14_DeleteRemovesExactlyThat ==
    /\ [][(Arrives /\ Arrived.kind = "delete" /\ Arrived.err # "ECONN") =>
            IF SelectById(Arrived.id) = {}
            THEN Arrived.code = 404 /\ orders' = orders
            ELSE /\ Arrived.code = 200
                 /\ Cardinality(SelectById(Arrived.id)) = 1
                 /\ orders' = orders \ SelectById(Arrived.id)]_vars
    /\ [](\A d \in Deletes :
            reqs[d].code = 200 =>
                /\ SelectById(reqs[d].id) = {}
                /\ \A g \in Gets :
                      (d < g /\ reqs[g].id = reqs[d].id /\ reqs[g].err # "ECONN")
                      => reqs[g].code = 404)

\* an order was deleted and a later getById of its id was answered 404
C14_Witness ==
    \E d \in Deletes : \E g \in Gets :
        /\ reqs[d].code = 200 /\ reqs[d].order.id = reqs[d].id
        /\ d < g /\ reqs[g].id = reqs[d].id /\ reqs[g].code = 404

\* C15: a status update with a status other than pending and done is answered
\* 400, and one with a valid status for an id that no stored order has is
\* answered 404; in both cases the store is unchanged and no e-mail is handed
\* to sendEmail.
C15_RejectedUpdateChangesNothing ==
    /\ [][(Arrives /\ Arrived.kind = "patch") =>
            /\ Arrived.status \notin {"pending", "done"} =>
                  Arrived.code = 400 /\ orders' = orders /\ emails' = emails
            /\ ( /\ Arrived.status \in {"pending", "done"}
                 /\ SelectById(Arrived.id) = {}
                 /\ Arrived.err # "ECONN" ) =>
                  Arrived.code = 404 /\ orders' = orders /\ emails' = emails]_vars
    /\ [](\A r \in Patches :
            reqs[r].code \in {400, 404} => (~reqs[r].applied /\ StatusMails(r) = {}))

\* an update with an invalid status for a stored order was answered 400 and an
\* update with a valid status for an unknown id was answered 404
C15_Witness ==
    /\ \E r \in Patches :
          /\ reqs[r].status = "shipped" /\ reqs[r].code = 400
          /\ SelectById(reqs[r].id) # {}
    /\ \E r \in Patches :
          /\ reqs[r].status = "done" /\ reqs[r].code = 404
          /\ SelectById(reqs[r].id) = {}

\* C16: the answer to a successful status update carries, besides the new
\* status, the status the order had before the update.
C16_ReplyCarriesPreviousStatus ==
    \A r \in Patches :
        reqs[r].code = 200 =>
            \E f \in reqs[r].reply : f[1] # "newStatus" /\ f[2] = reqs[r].order.status

\* the configured bounds of the deployed server
MinJersey == IF env.server = 1 THEN MinJersey1 ELSE MinJersey2

MaxJersey == IF env.server = 1 THEN MaxJersey1 ELSE MaxJersey2

\* the fields other than the jersey number meet the validator's contract
OthersValid(b) ==
    /\ \A i \in 1..Len(RequiredFields) :
          RequiredFields[i] # "jerseyNumber" => Present(b[RequiredFields[i]])
    /\ EmailRegexTest(Trim(JsString(b.email)))

\* C17: a jersey number equal to the lower or to the upper bound is accepted
\* by validation, and one below the lower or one above the upper bound is
\* answered 400, as a number and as a numeric string alike.
C17_BoundsAreInclusive ==
    \A r \in Submits :
        (Done(r) /\ OthersValid(reqs[r].body) /\ IsInteger(reqs[r].body.jerseyNumber)) =>
            /\ JerseyOf(r) \in {MinJersey, MaxJersey} => reqs[r].code # 400
            /\ JerseyOf(r) \in {MinJersey - 1, MaxJersey + 1} => reqs[r].code = 400

\* the required fields of a submission that are missing or blank, and those
\* whose value is invalid
Faulty(b) ==
    {RequiredFields[i] : i \in {k \in 1..Len(RequiredFields) : ~Present(b[RequiredFields[k]])}}
    \cup (IF Present(b.email) /\ ~EmailRegexTest(Trim(JsString(b.email)))
          THEN {"email"} ELSE {})
    \cup (IF Present(b.jerseyNumber)
             /\ (~IsInteger(b.jerseyNumber)
                    \/ ParseInt(b.jerseyNumber).n < MinJersey
                    \/ ParseInt(b.jerseyNumber).n > MaxJersey)
          THEN {"jerseyNumber"} ELSE {})

\* the fields a 400 answer names: those listed in missingFields and the one
\* its message is about
Named(q) ==
    {f \in {RequiredFields[i] : i \in 1..Len(RequiredFields)} : <<"missingFields", f>> \in q.reply}
    \cup (IF q.error \in {<<Lit("Jersey number must be 0-500")>>,
                          <<Lit("Jersey number must be between 1 and 99")>>}
          THEN {"jerseyNumber"} ELSE {})
    \cup (IF q.error \in {<<Lit("Invalid email format")>>,
                          <<Lit("Please provide a valid email address")>>}
          THEN {"email"} ELSE {})

\* C18: a submission gets past validation only if every required field is
\* present and, where textual, not blank; and a 400 answer names every field
\* that is missing or invalid.
C18_EveryFaultyFieldIsNamed ==
    \A r \in Submits :
        /\ (Done(r) /\ reqs[r].code # 400) =>
              \A i \in 1..Len(RequiredFields) : Present(reqs[r].body[RequiredFields[i]])
        /\ reqs[r].code = 400 => Faulty(reqs[r].body) \subseteq Named(reqs[r])

\* the value is the absent marker or a trimmed string that is not empty
NullOrTrimmed(v) == v = Null \/ (v.t = "str" /\ v.s # <<>> /\ Trim(v.s) = v.s)

\* the optional field is missing, empty or blank
Blank(v) == v.t = "undef" \/ (v.t = "str" /\ Trim(v.s) = <<>>)

\* C19: every optional column of every stored order is null or a trimmed
\* string that is not empty, and the order stored for a submission has null
\* where the submitted optional field was missing, empty or blank.
C19_OptionalNullOrTrimmed ==
    /\ \A o \in orders :
          NullOrTrimmed(o.batch) /\ NullOrTrimmed(o.transaction_id) /\ NullOrTrimmed(o.notes)
    /\ \A r \in Submits :
          Inserted(r) =>
              /\ Blank(reqs[r].body.batch) => reqs[r].order.batch = Null
              /\ Blank(reqs[r].body.transactionId) => reqs[r].order.transaction_id = Null
              /\ Blank(reqs[r].body.notes) => reqs[r].order.notes = Null

\* an order is stored for a submission with an empty batch, a blank
\* transaction id and padded notes
C19_Witness ==
    \E r \in Submits :
        /\ Inserted(r) /\ reqs[r].order \in orders
        /\ reqs[r].body.batch = Str(<<>>) /\ reqs[r].order.batch = Null
        /\ reqs[r].body.transactionId = Str(<<" ">>) /\ reqs[r].order.transaction_id = Null
        /\ reqs[r].body.notes = Str(<<" ", "x", " ">>) /\ reqs[r].order.notes = Str(<<"x">>)

Checks == {r \in Requests : reqs[r].kind = "check"}

\* the query answered that the number is available
SaysAvailable(q) == <<"available", "true">> \in q.reply

\* C20: check-jersey for a number n is answered with available = true exactly
\* when no stored order has number n at the time of the query; after a
\* submission with number n was answered 201, and its order was not deleted,
\* the answer is available = false.
C20_AvailableIffUnused ==
    /\ [][(Arrives /\ Arrived.kind = "check" /\ IsInteger(Str(Arrived.number))
                   /\ Arrived.err # "ECONN") =>
            /\ Arrived.code = 200
            /\ Arrived.reply \in {{<<"available", "true">>}, {<<"available", "false">>}}
            /\ SaysAvailable(Arrived)
                  <=> (\A o \in orders : o.jersey_number # ParseInt(Str(Arrived.number)).n)]_vars
    /\ [](\A s \in Submits : \A c \in Checks :
            ( /\ reqs[s].code = 201 /\ s < c /\ s \notin reqs[c].during
              /\ reqs[c].code = 200
              /\ IsInteger(reqs[s].body.jerseyNumber)
              /\ JerseyOf(s) = ParseInt(Str(reqs[c].number)).n
              /\ \A d \in Deletes : reqs[d].id # reqs[s].order.id )
            => ~SaysAvailable(reqs[c]))

\* a query for a number was answered available = false after a submission
\* with that number had been answered 201
C20_Witness ==
    \E s \in Submits : \E c \in Checks :
        /\ reqs[s].code = 201 /\ s < c /\ s \notin reqs[c].during
        /\ reqs[c].code = 200 /\ JerseyOf(s) = ParseInt(Str(reqs[c].number)).n
        /\ reqs[c].reply = {<<"available", "false">>}

CheckNameRequests == {r \in Requests : reqs[r].kind = "checkname"}

\* the two strings are equal up to the case of their letters
SameIgnoringCase(a, b) ==
    /\ Len(a) = Len(b)
    /\ \A i \in 1..Len(a) :
          \/ a[i] = b[i]
          \/ \E k \in 1..26 : {a[i], b[i]} = {UpperCase[k], LowerCase[k]}

\* the query answered that the name exists
SaysExists(q) == <<"exists", "true">> \in q.reply

\* C21 as stated: check-name is answered exists = true exactly when the name
\* of some stored order equals the queried name up to letter case.
C21_ExistsIffSameName ==
    [][(Arrives /\ Arrived.kind = "checkname" /\ Arrived.code = 200) =>
        (SaysExists(Arrived)
            <=> \E o \in orders : SameIgnoringCase(o.name, Arrived.name))]_vars

\* C21 as amended: check-name is answered exists = true exactly when the name
\* of some stored order equals the queried name, with the white space around
\* it removed, up to letter case; after a submission with a name was answered
\* 201 the query for that name, in either letter case, says exists = true.
C21_ExistsIffSameTrimmedName ==
    /\ [][(Arrives /\ Arrived.kind = "checkname" /\ Arrived.name # <<>>
                  /\ Arrived.err # "ECONN") =>
            /\ Arrived.code = 200
            /\ Arrived.reply \in {{<<"exists", "true">>}, {<<"exists", "false">>}}
            /\ SaysExists(Arrived)
                  <=> \E o \in orders : SameIgnoringCase(o.name, Trim(Arrived.name))]_vars
    /\ [](\A s \in Submits : \A c \in CheckNameRequests :
            ( /\ reqs[s].code = 201 /\ s < c /\ s \notin reqs[c].during
              /\ reqs[c].code = 200
              /\ SameIgnoringCase(Trim(JsString(reqs[s].body.name)), reqs[c].name) )
            => SaysExists(reqs[c]))

\* a submission named Al was answered 201 and a later query for al was
\* answered exists = true
C21_Witness ==
    \E s \in Submits : \E c \in CheckNameRequests :
        /\ reqs[s].code = 201 /\ s < c /\ s \notin reqs[c].during
        /\ reqs[s].body.name = Str(<<"A", "l">>) /\ reqs[c].name = <<"a", "l">>
        /\ reqs[c].reply = {<<"exists", "true">>}

\* an order that was stored before request r arrived has the submitted name,
\* up to letter case
NamesakeBefore(r) ==
    \E o \in orders :
        /\ SameIgnoringCase(o.name, Trim(JsString(reqs[r].body.name)))
        /\ \A s \in Submits :
              reqs[s].order.id = o.id => (s < r /\ s \notin reqs[r].during)

\* C22: a submission that is not refused by validation, whose name a stored
\* order has (in any letter case) and whose number no stored order holds and
\* no other submission asks for, is answered 201 and persisted, unless the
\* store fails; and a check-name request leaves the store as it is.
C22_NameNeverBlocks ==
    /\ [](\A r \in Submits :
            ( /\ Done(r) /\ reqs[r].code # 400 /\ reqs[r].err = ""
              /\ NamesakeBefore(r)
              /\ ~reqs[r].held
              /\ \A r2 \in Submits \ {r} : JerseyOf(r2) # JerseyOf(r) )
            => (reqs[r].code = 201 /\ Inserted(r)))
    /\ [][(Arrives /\ Arrived.kind = "checkname") =>
            (orders' = orders /\ nextId' = nextId /\ emails' = emails)]_vars

\* a submission named al with an unused number was admitted while the store
\* held an order named Al
C22_Witness ==
    \E r \in Submits :
        /\ reqs[r].code = 201 /\ reqs[r].order \in orders
        /\ reqs[r].body.name = Str(<<"a", "l">>)
        /\ \E o \in orders : o.id < reqs[r].order.id /\ o.name = <<"A", "l">>

Lists == {r \in Requests : reqs[r].kind = "list"}

\* how often the order with this id occurs in a sequence of rows
Occurrences(rows, id) == Cardinality({k \in 1..Len(rows) : rows[k].id = id})

\* C23: when a submission was answered 201 and a list request without filter
\* and without page arrives afterwards and is answered 200, the answer holds
\* the new order exactly once, and holds it first when no order of the answer
\* was created after it.
C23_CreateThenList ==
    \A s \in Submits : \A l \in Lists :
        ( /\ reqs[s].code = 201 /\ s < l /\ s \notin reqs[l].during
          /\ reqs[l].code = 200 /\ reqs[l].list = NoList )
        => /\ Occurrences(reqs[l].rows, reqs[s].order.id) = 1
           /\ (\A k \in 1..Len(reqs[l].rows) : reqs[l].rows[k].id <= reqs[s].order.id)
                 => reqs[l].rows[1] = reqs[s].order

\* a list without filter was answered with the order just created in front of
\* two older orders
C23_Witness ==
    \E s \in Submits : \E l \in Lists :
        /\ reqs[s].code = 201 /\ s < l /\ s \notin reqs[l].during
        /\ reqs[l].code = 200 /\ reqs[l].list = NoList
        /\ Len(reqs[l].rows) = 3
        /\ reqs[l].rows[1] = reqs[s].order

\* the orders a status filter keeps
Kept(list) ==
    {o \in orders : (list.status # "" /\ list.status # "all") => o.status = list.status}

\* the position of an order among the kept orders, the newest first
Position(o, list) == 1 + Cardinality({p \in Kept(list) : p.id > o.id})

PageNumber(list) == IF list.page = Undefined THEN 1 ELSE ToNumber(list.page).n

PageSize(list) == IF list.limit = Undefined THEN 50 ELSE ToNumber(list.limit).n

FirstPosition(list) == (PageNumber(list) - 1) * PageSize(list) + 1

LastPosition(list) == PageNumber(list) * PageSize(list)

OnPage(list) ==
    {o \in Kept(list) :
        FirstPosition(list) <= Position(o, list) /\ Position(o, list) <= LastPosition(list)}

\* C24: the rows of a list request without search are the kept orders at the
\* positions (page - 1) * pageSize + 1 .. page * pageSize, in that order, of
\* the store its query reads; and its total is the number of kept orders of
\* the store its count reads, whatever the page.
C24_PageOfKeptOrders ==
    /\ [][(Arrives /\ Arrived.kind = "list" /\ Arrived.pc = "count"
                  /\ Arrived.list.search = <<>>) =>
            /\ Len(Arrived.rows) = Cardinality(OnPage(Arrived.list))
            /\ \A o \in OnPage(Arrived.list) :
                  Arrived.rows[Position(o, Arrived.list) - FirstPosition(Arrived.list) + 1] = o]_vars
    /\ [][\A l \in Lists :
            (reqs[l].pc = "count" /\ reqs'[l].code = 200 /\ reqs[l].list.search = <<>>)
            => reqs'[l].total = Cardinality(Kept(reqs[l].list))]_vars

\* the second page of size one under the wildcard was answered with the
\* older of two orders and the total two, and the first page of the done
\* orders with the one done order and the total one
C24_Witness ==
    \E l, m \in Lists :
        /\ reqs[l].code = 200
        /\ reqs[l].list = ListQuery(Str(<<"2">>), Str(<<"1">>), "all", <<>>)
        /\ reqs[l].rows = <<SeedOrder>> /\ reqs[l].total = 2
        /\ reqs[m].code = 200
        /\ reqs[m].list = ListQuery(Undefined, Str(<<"1">>), "done", <<>>)
        /\ reqs[m].rows = <<DoneOrder>> /\ reqs[m].total = 1

StatsRequests == {r \in Requests : reqs[r].kind = "stats"}

\* the sum of finalPrice over a set of orders
RECURSIVE Revenue(_)
Revenue(S) ==
    IF S = {} THEN 0
    ELSE LET o == CHOOSE x \in S : TRUE IN o.final_price + Revenue(S \ {o})

\* C25: the total revenue of an answered stats request is the sum of
\* finalPrice over the orders that are done in the store its revenue query
\* reads, and 0 when none of them is done.
C25_RevenueOfDoneOrders ==
    [][\A r \in StatsRequests :
        (reqs[r].pc = "stats_revenue" /\ reqs'[r].code = 200) =>
            /\ reqs'[r].stats.totalRevenue = Revenue({o \in orders : o.status = "done"})
            /\ (\A o \in orders : o.status # "done") => reqs'[r].stats.totalRevenue = 0]_vars

\* stats were answered with the price of the one done order while the store
\* also held a pending order with a price
C25_Witness ==
    \E r \in StatsRequests :
        /\ reqs[r].code = 200
        /\ reqs[r].stats.totalRevenue = DoneOrder.final_price
        /\ reqs[r].stats.pending = 1 /\ reqs[r].stats.done = 1
        /\ \E o \in orders : o.status = "pending" /\ o.final_price > 0

\* the kinds of the requests that only read
ReadKinds == {"get", "list", "stats", "check", "checkname"}

\* request r takes a step
Steps(r) == reqs'[r] # reqs[r]

\* the orders with another id are the same before and after the step
OthersUnchanged(id) ==
    {o \in orders : o.id # id} = {o \in orders' : o.id # id}

\* C26: in every step an order that stays in the store keeps every field but
\* its status; the UPDATE of a status update and the DELETE of a delete leave
\* the orders with other ids as they are; and no step of a getById, list,
\* stats, check-jersey or check-name request changes the store.
C26_Frame ==
    [][ /\ \A o \in orders : \A p \in orders' :
              o.id = p.id => [p EXCEPT !.status = o.status] = o
        /\ \A r \in Patches : Steps(r) => OthersUnchanged(reqs[r].id)
        /\ (Arrives /\ Arrived.kind \in {"patch", "delete"}) => OthersUnchanged(Arrived.id)
        /\ (Arrives /\ Arrived.kind \in ReadKinds) => orders' = orders
        /\ \A r \in Requests :
              (reqs[r].kind \in ReadKinds /\ Steps(r)) => orders' = orders ]_vars

\* a status update set one order to done while the store held another order
\* with notes, and both still have what they were created with
C26_Witness ==
    \E r \in Patches :
        /\ reqs[r].code = 200 /\ reqs[r].applied
        /\ [reqs[r].order EXCEPT !.status = "done"] \in orders
        /\ reqs[r].order.status = "pending"
        /\ \E o \in orders : o.id # reqs[r].id /\ o.notes = Str(<<"x">>)

\* C27: when a request has been answered, no store connection that was
\* opened for it is still open.
C27_ConnectionsReleased ==
    \A r \in Requests : Done(r) => reqs[r].open = 0

\* the kinds of the admin requests
AdminKinds == {"list", "get", "patch", "delete", "stats"}

AdminRequests == {r \in Requests : reqs[r].kind \in AdminKinds}

\* nothing of the store is in the request, and no connection was opened
StoreUntouched(q) ==
    /\ q.order = NoOrder /\ q.rows = <<>> /\ q.total = 0 /\ q.stats = NoStats
    /\ q.open = 0 /\ q.err = ""

\* C28: an admin request without a token is answered 401 and one with a
\* forged or expired token 403, in its first step, without reading or
\* changing the store and without an e-mail; so every admin request that
\* waits, or that was answered otherwise, carries a valid token.
C28_AdminNeedsValidToken ==
    /\ [][(Arrives /\ Arrived.kind \in AdminKinds /\ Arrived.token # ValidToken) =>
            /\ Arrived.pc = "done"
            /\ Arrived.code = (IF Arrived.token = "none" THEN 401 ELSE 403)
            /\ StoreUntouched(Arrived)
            /\ orders' = orders /\ nextId' = nextId /\ emails' = emails]_vars
    /\ [](\A r \in AdminRequests :
            (~Done(r) \/ reqs[r].code \notin {401, 403}) => reqs[r].token = ValidToken)

\* a delete with an expired token and a status update without a token were
\* refused while the store held the order they name
C28_Witness ==
    \E r, r2 \in AdminRequests :
        /\ reqs[r].kind = "delete" /\ reqs[r].token = "expired" /\ reqs[r].code = 403
        /\ reqs[r2].kind = "patch" /\ reqs[r2].token = "none" /\ reqs[r2].code = 401
        /\ reqs[r2].status = "done"
        /\ \E o \in orders : o.id = reqs[r].id /\ o.id = reqs[r2].id /\ o.status = "pending"

\* the values of an answer that hold the text of the error that was caught
InternalErrorTexts == {ErrorMessage, DatabaseError}

\* C29: a request that met a failure of the store is answered 500, and no
\* value of the answer holds the text of the error.
C29_GenericDependencyError ==
    \A r \in Requests :
        (Done(r) /\ reqs[r].err = "ECONN") =>
            /\ reqs[r].code = 500
            /\ \A p \in reqs[r].reply : p[2] \notin InternalErrorTexts

\* C30: the answer of a successful delete holds the order as it was stored
\* when it was removed.
C30_DeleteReturnsSnapshot ==
    \A r \in Deletes : reqs[r].code = 200 => reqs[r].rows = <<reqs[r].order>>

\* the digits of an identifier: the decimal digits of the id behind as many
\* zeros as the width asks for
ZeroPadded(ds, id, width) ==
    /\ Len(ds) = (IF Len(IntToString(id)) > width THEN Len(IntToString(id)) ELSE width)
    /\ \A k \in 1..Len(ds) : IsDigit(ds[k])
    /\ DigitsValue(ds) = id

\* the order with this id is not in the store
Fresh(id) == \A p \in orders : p.id # id

\* C31: the identifier of a submission answered 201 is ICE- followed by the
\* zero-padded id of the order it persisted; stored orders have distinct ids
\* and answered submissions distinct identifiers; and an order that enters
\* the store gets an id that no order persisted or deleted before had.
C31_OrderIdentifier ==
    /\ [](\A r \in Submits : reqs[r].code = 201 =>
            /\ Inserted(r)
            /\ SubSeq(reqs[r].orderId, 1, 4) = <<"I", "C", "E", "-">>
            /\ ZeroPadded(SubSeq(reqs[r].orderId, 5, Len(reqs[r].orderId)),
                          reqs[r].order.id, IF env.server = 1 THEN 3 ELSE 6))
    /\ [](\A o, p \in orders : o.id = p.id => o = p)
    /\ [](\A r, r2 \in Submits :
            (reqs[r].code = 201 /\ reqs[r2].code = 201 /\ r # r2)
            => reqs[r].orderId # reqs[r2].orderId)
    /\ [][\A o \in orders' : Fresh(o.id) =>
            /\ \A r \in Submits : Inserted(r) => reqs[r].order.id # o.id
            /\ \A d \in Deletes : reqs[d].code = 200 => reqs[d].order.id # o.id]_vars

\* the seeded order was deleted and a later submission was answered with the
\* identifier of the next id
C31_Witness ==
    \E d \in Deletes : \E r \in Submits :
        /\ reqs[d].code = 200 /\ reqs[d].order.id = 1
        /\ reqs[r].code = 201 /\ d < r
        /\ reqs[r].orderId = <<"I", "C", "E", "-", "0", "0", "2">>

\* the e-mails of request r
MailsOf(r) == {e \in emails : e.req = r}

\* C32: a submission that misses a required field, has a malformed e-mail
\* address or a jersey number that is not an integer of the range is answered
\* 400 without a store access: nothing is stored for it and no e-mail is sent.
C32_InvalidIsRefusedFirst ==
    \A r \in Submits :
        (Done(r) /\ ~ValidDraft(reqs[r].body)) =>
            /\ reqs[r].code = 400
            /\ ~Inserted(r) /\ reqs[r].err = ""
            /\ MailsOf(r) = {}

\* the e-mails about the creation of an order
CreationMails == {e \in emails : e.kind \in {"confirmation", "admin"}}

\* C33: a confirmation or an admin alert is handed over only for a submission
\* whose order has been persisted (it is stored, or was stored and has been
\* deleted since), and at most one of each for it; a submission that is
\* answered anything but 201 (400, 409, or 500 after a failure of the store)
\* has no e-mail.
C33_MailsFollowPersistence ==
    /\ [](\A e \in CreationMails :
            /\ reqs[e.req].kind = "submit" /\ Inserted(e.req)
            /\ \A f \in CreationMails : (f.req = e.req /\ f.kind = e.kind) => f = e)
    /\ [](\A r \in Submits : (Done(r) /\ reqs[r].code # 201) => MailsOf(r) = {})
    /\ [](\A r, r2 \in Submits :
            (Inserted(r) /\ Inserted(r2) /\ r # r2) => reqs[r].order.id # reqs[r2].order.id)
    /\ [][\A e \in emails' :
            (e.kind \in {"confirmation", "admin"}
                /\ \A f \in emails : f.req # e.req \/ f.kind # e.kind)
            => \/ \E o \in orders' : o.id = reqs'[e.req].order.id
               \/ \E d \in Deletes : reqs[d].code = 200
                                        /\ reqs[d].order.id = reqs'[e.req].order.id]_vars

\* a persisted order has its confirmation and its admin alert, one of each
C33_Witness ==
    \E r \in Submits :
        /\ reqs[r].code = 201 /\ reqs[r].order \in orders
        /\ Cardinality({e \in MailsOf(r) : e.kind = "confirmation"}) = 1
        /\ Cardinality({e \in MailsOf(r) : e.kind = "admin"}) = 1

\* C34: a status update whose UPDATE finds no order with its id, because a
\* delete removed it after the handler had read it, is answered 404 and hands
\* over no e-mail.
C34_LostUpdateIsNotFound ==
    [][\A r \in Patches :
        ( /\ reqs[r].pc = "update" /\ reqs'[r].pc # "update" /\ reqs'[r].err = ""
          /\ Fresh(reqs[r].id) )
        => (reqs'[r].code = 404 /\ emails' = emails)]_vars

\* C35: every stored order has the status pending or done; an order enters
\* the store as pending, and a status update writes only pending or done.
C35_StatusIsPendingOrDone ==
    /\ [](\A o \in orders : o.status \in {"pending", "done"})
    /\ [][\A o \in orders' : Fresh(o.id) => o.status = "pending"]_vars
    /\ [][\A r \in Patches :
            (reqs[r].pc = "update" /\ orders' # orders)
            => reqs[r].status \in {"pending", "done"}]_vars

\* a status update to shipped was refused, one to done was applied, and the
\* store holds a done order
C35_Witness ==
    \E r, r2 \in Patches :
        /\ reqs[r].status = "shipped" /\ reqs[r].code = 400
        /\ reqs[r2].status = "done" /\ reqs[r2].code = 200
        /\ \E o \in orders : o.id = reqs[r].id /\ o.id = reqs[r2].id /\ o.status = "done"

\* C36: in every answered stats request the total number of orders is the
\* pending count plus the done count.
C36_StatsAreOneSnapshot ==
    \A r \in StatsRequests :
        reqs[r].code = 200 =>
            reqs[r].stats.totalOrders = reqs[r].stats.pending + reqs[r].stats.done

\* C37: after a delete removed an order with number n, and while no
\* submission has stored an order with n since, check-jersey n is answered
\* available = true, and a valid submission with n is admitted.
C37_DeleteFreesNumber ==
    /\ \A d \in Deletes : \A c \in Checks :
          ( /\ reqs[d].code = 200 /\ d < c
            /\ reqs[c].code = 200
            /\ IsInteger(Str(reqs[c].number))
            /\ ParseInt(Str(reqs[c].number)).n = reqs[d].order.jersey_number
            /\ \A s \in Submits : ~Inserted(s) )
          => SaysAvailable(reqs[c])
    /\ \A d \in Deletes : \A s \in Submits :
          ( /\ reqs[d].code = 200 /\ d < s
            /\ Done(s) /\ reqs[s].err = "" /\ ValidDraft(reqs[s].body)
            /\ JerseyOf(s) = reqs[d].order.jersey_number )
          => reqs[s].code = 201

\* C38: every stored jersey number lies in the range of the server; a
\* submission that passed validation is checked and stored with the parsed
\* integer of its jerseyNumber: the store never refuses the value as not an
\* integer, the stored number is the parsed one, and the submission is
\* answered 409 when a stored order held that integer on arrival.
C38_ParsedIntegerIsUsed ==
    /\ \A o \in orders : MinJersey <= o.jersey_number /\ o.jersey_number <= MaxJersey
    /\ \A r \in Submits :
          (Done(r) /\ Validated(r) /\ reqs[r].err \notin {"ECONN", "TypeError"}) =>
              /\ reqs[r].err # "22P02"
              /\ Inserted(r) => reqs[r].order.jersey_number = JerseyOf(r)
              /\ reqs[r].held => reqs[r].code = 409

\* C39: every submission, status update and delete that arrived is answered
\* at some time, when the store answers or fails each query.
C39_EveryRequestAnswered ==
    \A r \in 1..MaxReqs : [](r \in Requests => <>(r \in Requests /\ Done(r)))

\* the runs of initDB
Runs == {r \in Requests : reqs[r].kind = "initDB"}

\* run r2 was going on at some time while run r was
Overlap(r, r2) == r2 \in reqs[r].during \/ r \in reqs[r2].during

\* C40: admin_users never holds two accounts with one username; an account
\* that exists is never changed or removed; a run that returned leaves an
\* account for every default username; and a run fails on the UNIQUE
\* constraint only when another run was going on at the same time.
C40_SeedingIsIdempotent ==
    /\ [](\A a, b \in admin_users : a.username = b.username => a = b)
    /\ [][\A a \in admin_users : a \in admin_users']_vars
    /\ [](\A r \in Runs :
            (Done(r) /\ reqs[r].err = "") =>
                \A i \in 1..3 : \E a \in admin_users :
                    a.username = <<"ice_dep", "aldrik", "noor">>[i])
    /\ [](\A r \in Runs :
            reqs[r].err = "23505" => \E r2 \in Runs \ {r} : Overlap(r, r2))

\* two runs returned one after the other, the first on an empty table; the
\* three accounts are those of the first run
C40_Witness ==
    \E r, r2 \in Runs :
        /\ r < r2 /\ r \notin reqs[r2].during
        /\ Done(r) /\ reqs[r].err = "" /\ Done(r2) /\ reqs[r2].err = ""
        /\ Cardinality(admin_users) = 3
        /\ \A a \in admin_users : a.password_hash.salt = r

====
